---- MODULE Spec2Model ----
(***************************************************************************)
(* Model of the fault-tolerant averaging code of                           *)
(* src/template/utils/hivemind.py:                                         *)
(*   - DTAverager._step_custom / _aggregate_with_group (step controller    *)
(*     and one all-reduce round), specification SpecStep, and              *)
(*     SpecStepLive under a fair scheduler;                                *)
(*   - DTStateAverager.load_final_state_from_peers / load_state_from_peer  *)
(*     (state recovery), specification SpecRecovery;                       *)
(*   - DTAllReduceRunner._ban_sender (ban protocol), specification SpecBan;*)
(*   - DTGradientAverager (gradient accumulation and step), specification  *)
(*     SpecGrad (one round, the constructor's defaults) and                *)
(*     SpecGradConfig (successive rounds, every setting of                 *)
(*     reuse_grad_buffers and warn);                                       *)
(*   - DTStateAverager._load_state_from_peers_with_latest_state (state     *)
(*     download), specification SpecDownload;                              *)
(*   - DTAllReduceRunner._communicate_with_peer inside the locked section  *)
(*     of _aggregate_with_group (exchange with the remote reducers),       *)
(*     specification SpecExchange;                                         *)
(*   - the download bandwidths _aggregate_with_group passes to the load    *)
(*     balancer, specification SpecBalance.                                *)
(***************************************************************************)
EXTENDS Integers, Sequences, FiniteSets, TLC

\* ------------------------------------------------------------------ bounds
MaxTime == 2
MaxAttempts == 2
NumTensors == 2
MaxEpoch == 1
NumParams == 1
NumSenders == 2
MaxAccum == 3
MaxControls == 1
NumRemote == 2
MaxParts == 2
GroupSize == 2

\* deadline = float("inf") when no timeout is given (line 247)
Inf == MaxTime + 1

VARIABLES
  \* ---- step controller (DTAverager._step_custom)
  pc,            \* position of the _step_custom coroutine
  mm,            \* state of matchmaking_task (find_peers_or_notify_cancel)
  found,         \* what look_for_group returned: "group" | "none" | "na"
  mmExc,         \* exception the matchmaking task ended with
  outcome,       \* the step future: "pending" | "result" | "exception" | "cancelled"
  excSet,        \* the exception stored in the step future by set_exception
  exc,           \* exception in flight in _step_custom
  excSrc,        \* where the exception in flight was raised
  stage,         \* step.stage
  trigger,       \* the trigger future: "pending" | "fired" | "cancelled"
  cancelFut,     \* the cancel future: "pending" | "set"
  userPc,        \* progress of the caller's step.cancel()
  now,           \* get_dht_time()
  deadline,      \* step.deadline
  allow_retries, \* step.allow_retries
  attempts,      \* matchmaking attempts started so far
  registered,    \* group_info.group_id in self._running_groups
  mode,          \* runner.modes[index of self.peer_id]
  tensors,       \* the local averaged tensors (one number per tensor)
  nextTensor,    \* index of the next tensor the runner yields an update for
  \* ---- history of the step controller (read by the properties only)
  tensors0,      \* tensors when the current round's _aggregate_with_group began
  cancelInRound, \* a cancel signal arrived while the all-reduce was running
  deliveredToAux,\* the runner yielded an averaged part to an AUX peer
  hValid, hDone, hNow, hExc, \* the last pass through the except handler
  chkCancelled,  \* step.cancelled() as read at line 319 in this attempt
  invTrigger, invCancelled   \* trigger / step.cancelled() when the all-reduce was invoked

stepVars == <<pc, mm, found, mmExc, outcome, excSet, exc, excSrc, stage, trigger,
              cancelFut, userPc, now, deadline, allow_retries, attempts, registered,
              mode, tensors, nextTensor>>
stepHist == <<tensors0, cancelInRound, deliveredToAux, hValid, hDone, hNow, hExc,
              chkCancelled, invTrigger, invCancelled>>

VARIABLES
  \* ---- state recovery (DTStateAverager, load_state_from_peer)
  sa_local_epoch,       \* self.state_averager.local_epoch
  params,               \* content of the parameters and extra tensors
  opt_state,            \* content of the optimizer state
  model_src,            \* content of self.model
  tracker_epoch,        \* self.tracker.local_progress.epoch
  neuron_local_epoch,   \* self.local_epoch of the neuron
  local_progress_epoch, \* self.local_progress.epoch of the neuron
  global_epoch,         \* self.global_progress.epoch
  hub_tags,             \* the tags of the model repository (checkpoint registry)
  lastOp                \* the last recovery operation, its inputs and its result

recVars == <<sa_local_epoch, params, opt_state, model_src, tracker_epoch,
             neuron_local_epoch, local_progress_epoch, global_epoch, hub_tags,
             lastOp>>

VARIABLES
  \* ---- ban protocol (DTAllReduceRunner._ban_sender)
  banned_senders,  \* self.banned_senders
  failed_calls,    \* how often tensor_part_reducer.on_sender_failed was called, per sender
  banlock,         \* holder of self.banlock, or "free"
  banPc,           \* position of every caller of _ban_sender
  banRaised,       \* whether the caller's _ban_sender call raised
  accumulated_from \* per sender: the parts the reducer has accumulated from it

banVars == <<banned_senders, failed_calls, banlock, banPc, banRaised,
             accumulated_from>>

VARIABLES
  \* ---- gradient accumulation (DTGradientAverager); one gradient tensor is
  \* modelled, the loops of 540-543, 616-619 and 627-628 treat every tensor alike
  local_samples_accumulated,  \* self.local_samples_accumulated
  local_times_accumulated,    \* self.local_times_accumulated
  anchor_batch_size,          \* self._anchor_batch_size, 0 for None
  local_accumulators,         \* the accumulator, in multiples of 1/anchor_batch_size
  averaged_grads,             \* the averaging buffer, a fraction [num, den]
  accumulators_used_in_step,  \* self._accumulators_used_in_step
  new_averaged_grads,         \* self._new_averaged_grads
  controls,                   \* the StepControl handles handed out so far
  reuse_grad_buffers,         \* self.reuse_grad_buffers
  warn,                       \* self.warn
  \* ---- history of the gradient accumulation (read by the properties only)
  accLog,     \* the batch sizes accumulated since the last reset
  bufFresh,   \* the averaging buffer still holds what the last step loaded
  stepLog,    \* per control: how many steps used it
  lastStep,   \* the last call of DTGradientAverager.step: its arguments and its end
  roundUnused \* a step was started and its results were not used since

gradVars == <<local_samples_accumulated, local_times_accumulated, anchor_batch_size,
              local_accumulators, averaged_grads, accumulators_used_in_step,
              new_averaged_grads, controls, reuse_grad_buffers, warn>>
gradHist == <<accLog, bufFresh, stepLog, lastStep, roundUnused>>

VARIABLES
  \* ---- state download (DTStateAverager._load_state_from_peers_with_latest_state)
  dlPc,        \* position of the coroutine: "idle" | "lookup" | "loop" | "done"
  dlEpoch,     \* the global_epoch argument
  dlHasDir,    \* the progress key is present in the directory (714-716)
  dlDir,       \* per peer its published progress: <<>> for none, <<epoch>> otherwise
  dlPrio,      \* per peer its priority in <prefix>.all_averagers, 0 for no numeric entry
  dlOrder,     \* sorted(peer_priority.keys(), ...) of lines 758-760
  dlIdx,       \* position of the for loop in dlOrder
  dlMetadata,  \* the variable metadata: <<>> for None, <<p>> for what peer p sent
  dlFuture,    \* the future: pending, None, or the pair (metadata, tensors)
  dlRaised,    \* an exception left the coroutine
  \* ---- history of the state download (read by the properties only)
  dlLog,       \* the peers contacted so far and how their streams ended
  dlSets       \* how often the future's set_result was called

dlVars == <<dlPc, dlEpoch, dlHasDir, dlDir, dlPrio, dlOrder, dlIdx, dlMetadata,
            dlFuture, dlRaised>>
dlHist == <<dlLog, dlSets>>

VARIABLES
  \* ---- one all-reduce round and its exchanges with the remote reducers
  tensors_lock,      \* holder of the lock of get_tensors(): "free" | "round" | "caller"
  rdPc,              \* _aggregate_with_group: "idle" | "running" | "done"
  callerPc,          \* a concurrent user of get_tensors(): "idle" | "waiting" | "holding" | "done"
  cwPc,              \* per reducer, _communicate_with_peer: "idle" | "open" | "recv" |
                     \*   "except" | "returned" | "raised"
  num_parts_by_peer, \* tensor_part_container.num_parts_by_peer
  part_index,        \* per reducer, the local variable part_index
  received,          \* per reducer, how many messages were read from its stream
  producing,         \* per reducer, the stream is still being read
  prefetch,          \* per reducer, the queue of amap_in_executor
  processed,         \* per reducer, the parts registered in the container
  failed_reducers,   \* per reducer, how often register_failed_reducer was called
  cwExc              \* per reducer, the exception of the exchange, or "none"

exVars == <<tensors_lock, rdPc, callerPc, cwPc, num_parts_by_peer, part_index,
            received, producing, prefetch, processed, failed_reducers, cwExc>>

VARIABLES
  \* ---- the group's gathered data and the input of the load balancer
  group_peers,          \* per group position, the peer's own bandwidth and mode
  gathered,             \* group_info.gathered: per position [bandwidth, mode id]
  download_bandwidths,  \* the list passed to load_balance_peers, <<>> before
  lbPc                  \* "matchmaking" | "gathered" | "balanced"

lbVars == <<group_peers, gathered, download_bandwidths, lbPc>>

vars == <<stepVars, stepHist, recVars, banVars, gradVars, gradHist, dlVars, dlHist,
          exVars, lbVars>>

\* what the actions of one component leave alone
othersOfStep == <<recVars, banVars, gradVars, gradHist, dlVars, dlHist,
  exVars, lbVars>>
othersOfRecovery == <<stepVars, stepHist, banVars, gradVars, gradHist, dlVars, dlHist,
  exVars, lbVars>>
othersOfBan == <<stepVars, stepHist, recVars, gradVars, gradHist, dlVars, dlHist,
  exVars, lbVars>>
othersOfGrad == <<stepVars, stepHist, recVars, banVars, dlVars, dlHist,
  exVars, lbVars>>
othersOfDownload == <<stepVars, stepHist, recVars, banVars, gradVars, gradHist,
  exVars, lbVars>>
othersOfExchange == <<stepVars, stepHist, recVars, banVars, gradVars, gradHist,
                      dlVars, dlHist, lbVars>>
othersOfBalance == <<stepVars, stepHist, recVars, banVars, gradVars, gradHist,
                     dlVars, dlHist, exVars>>

\* AveragingMode of the hivemind library: NODE, CLIENT, AUX
Modes == {"NODE", "CLIENT", "AUX"}

\* the exception classes the handler of lines 345-354 catches
Retryable == {"AllreduceException", "MatchmakingException", "AssertionError",
              "StopAsyncIteration", "CancelledError", "InvalidStateError",
              "P2PHandlerError", "P2PDaemonError"}

\* pc values from the registration of the group to the end of _aggregate_with_group
AllreducePcs == {"agg_setup", "agg_iter"}
PostMatchPcs == {"register", "unregister", "invoke"} \cup AllreducePcs

ZeroTensors == [i \in 1..NumTensors |-> 0]

\* ------------------------------------------------------------ pure helpers

\* step.done() (lines 306, 356, 362, 370, 375)
StepDone(o) == o /= "pending"

\* step.cancelled() (line 319)
StepCancelled(o) == o = "cancelled"

\* step.triggered: the trigger future is done (line 301)
TriggeredNever(t) == TRUE
Triggered(t) == t /= "pending"

\* the condition of lines 355-359
GiveUpNoDeadline(o, allow, t, dl) == StepDone(o) \/ ~allow
GiveUp(o, allow, t, dl) == StepDone(o) \/ ~allow \/ t >= dl

\* lines 360-363: the failure becomes the terminal exception only if the step
\* is not done yet
HandlerOutcomeUnguarded(o, giveUp) == IF giveUp THEN "exception" ELSE o
HandlerOutcome(o, giveUp) == IF giveUp /\ ~StepDone(o) THEN "exception" ELSE o

\* line 374
FinalStageStale == "RUNNING_ALLREDUCE"
FinalStage == "FINISHED"

\* lines 425-428: every mode but AUX applies the averaged updates
ReceivesAverageAll(m) == TRUE
ReceivesAverage(m) == m /= "AUX"

\* ------------------------------------------------------------------- Init

InitStep ==
  /\ pc = "init" /\ mm = "none" /\ found = "na" /\ mmExc = "none"
  /\ outcome = "pending" /\ excSet = "none" /\ exc = "none" /\ excSrc = "none"
  /\ stage = "IDLE" /\ trigger = "pending" /\ cancelFut = "pending"
  /\ userPc = "idle" /\ now = 0
  /\ deadline \in (1..MaxTime) \cup {Inf}     \* assert scheduled_time < deadline
  /\ allow_retries \in BOOLEAN
  /\ attempts = 0 /\ registered = FALSE
  /\ mode \in Modes
  /\ tensors = ZeroTensors /\ nextTensor = 1
  /\ tensors0 = ZeroTensors /\ cancelInRound = FALSE /\ deliveredToAux = FALSE
  /\ hValid = FALSE /\ hDone = FALSE /\ hNow = 0 /\ hExc = "none"
  /\ chkCancelled = FALSE /\ invTrigger = "pending" /\ invCancelled = FALSE

\* --------------------------------------------------- _step_custom (287-381)

\* lines 295-297: the trigger and cancel futures are attached and handed out
StepInit ==
  /\ pc = "init"
  /\ pc' = "loop"
  /\ UNCHANGED <<mm, found, mmExc, outcome, excSet, exc, excSrc, stage, trigger,
                 cancelFut, userPc, now, deadline, allow_retries, attempts,
                 registered, mode, tensors, nextTensor, stepHist>>
  /\ UNCHANGED othersOfStep

\* lines 306-313: the loop condition, and the start of one more attempt; the
\* bound caps the attempts started before the deadline (an attempt started at
\* or after the deadline cannot be retried, line 358)
LoopCheck ==
  /\ pc = "loop"
  /\ IF StepDone(outcome)
       THEN /\ pc' = "finally"
            /\ UNCHANGED <<mm, found, stage, attempts, chkCancelled>>
       ELSE /\ attempts < MaxAttempts \/ now >= deadline
            /\ pc' = "wait"
            /\ stage' = "LOOKING_FOR_GROUP"
            /\ mm' = "looking"
            /\ found' = "na"
            /\ attempts' = IF attempts < MaxAttempts THEN attempts + 1 ELSE attempts
            /\ chkCancelled' = FALSE
  /\ hValid' = FALSE
  /\ UNCHANGED <<mmExc, outcome, excSet, exc, excSrc, trigger, cancelFut, userPc,
                 now, deadline, allow_retries, registered, mode, tensors,
                 nextTensor, tensors0, cancelInRound, deliveredToAux, hDone, hNow,
                 hExc, invTrigger, invCancelled>>
  /\ UNCHANGED othersOfStep

\* lines 300-304: look_for_group returns a group or None; an untriggered step
\* then waits for its trigger
MMReturn ==
  /\ mm = "looking"
  /\ \E r \in {"group", "none"} :
       /\ found' = r
       /\ IF ~Triggered(trigger)
            THEN mm' = "awaiting" /\ stage' = "AWAITING_TRIGGER"
            ELSE mm' = "done" /\ UNCHANGED stage
  /\ UNCHANGED <<pc, mmExc, outcome, excSet, exc, excSrc, trigger, cancelFut,
                 userPc, now, deadline, allow_retries, attempts, registered, mode,
                 tensors, nextTensor, stepHist>>
  /\ UNCHANGED othersOfStep

\* line 300: look_for_group raises
MMRaise ==
  /\ mm = "looking"
  /\ \E e \in {"MatchmakingException", "P2PHandlerError", "Unexpected"} :
       mmExc' = e
  /\ mm' = "raised"
  /\ UNCHANGED <<pc, found, outcome, excSet, exc, excSrc, stage, trigger,
                 cancelFut, userPc, now, deadline, allow_retries, attempts,
                 registered, mode, tensors, nextTensor, stepHist>>
  /\ UNCHANGED othersOfStep

\* line 303: wait_for_trigger returns (trigger fired) or raises (trigger cancelled)
MMWake ==
  /\ mm = "awaiting"
  /\ trigger /= "pending"
  /\ IF trigger = "fired"
       THEN mm' = "done" /\ UNCHANGED mmExc
       ELSE mm' = "raised" /\ mmExc' = "CancelledError"
  /\ UNCHANGED <<pc, found, outcome, excSet, exc, excSrc, stage, trigger,
                 cancelFut, userPc, now, deadline, allow_retries, attempts,
                 registered, mode, tensors, nextTensor, stepHist>>
  /\ UNCHANGED othersOfStep

\* lines 315-323: asyncio.wait returns when the matchmaking task or the cancel
\* watcher completes; a cancelled step raises CancelledError
WaitReturn ==
  /\ pc = "wait"
  /\ mm \in {"done", "raised"} \/ cancelFut = "set"
  /\ chkCancelled' = StepCancelled(outcome)
  /\ IF StepCancelled(outcome)
       THEN /\ mm' = "none"
            /\ exc' = "CancelledError" /\ excSrc' = "cancel"
            /\ pc' = "handler"
       ELSE /\ pc' = "await_mm"
            /\ UNCHANGED <<mm, exc, excSrc>>
  /\ UNCHANGED <<found, mmExc, outcome, excSet, stage, trigger, cancelFut, userPc,
                 now, deadline, allow_retries, attempts, registered, mode, tensors,
                 nextTensor, tensors0, cancelInRound, deliveredToAux, hValid,
                 hDone, hNow, hExc, invTrigger, invCancelled>>
  /\ UNCHANGED othersOfStep

\* lines 325-330: the result of the matchmaking task
AwaitMM ==
  /\ pc = "await_mm"
  /\ mm \in {"done", "raised"}
  /\ mm' = "none"
  /\ IF mm = "raised"
       THEN /\ exc' = mmExc /\ excSrc' = "matchmaking"
            /\ pc' = IF mmExc \in Retryable THEN "handler" ELSE "outer_except"
       ELSE IF found = "none"
         THEN /\ exc' = "AllreduceException" /\ excSrc' = "matchmaking"
              /\ pc' = "handler"
         ELSE /\ pc' = "register"
              /\ UNCHANGED <<exc, excSrc>>
  /\ UNCHANGED <<found, mmExc, outcome, excSet, stage, trigger, cancelFut, userPc,
                 now, deadline, allow_retries, attempts, registered, mode, tensors,
                 nextTensor, stepHist>>
  /\ UNCHANGED othersOfStep

\* lines 332-333: the group is registered and the stage set inside the with block
RegisterGroup ==
  /\ pc = "register"
  /\ registered' = TRUE
  /\ stage' = "RUNNING_ALLREDUCE"
  /\ pc' = "unregister"
  /\ UNCHANGED <<mm, found, mmExc, outcome, excSet, exc, excSrc, trigger,
                 cancelFut, userPc, now, deadline, allow_retries, attempts, mode,
                 tensors, nextTensor, stepHist>>
  /\ UNCHANGED othersOfStep

\* line 333 -> 334: the with block ends before step.set_result(await ...) starts
UnregisterGroup ==
  /\ pc = "unregister"
  /\ registered' = FALSE
  /\ pc' = "invoke"
  /\ UNCHANGED <<mm, found, mmExc, outcome, excSet, exc, excSrc, stage, trigger,
                 cancelFut, userPc, now, deadline, allow_retries, attempts, mode,
                 tensors, nextTensor, stepHist>>
  /\ UNCHANGED othersOfStep

\* lines 335-343, 387-409: _aggregate_with_group is invoked
AggInvoke ==
  /\ pc = "invoke"
  /\ pc' = "agg_setup"
  /\ nextTensor' = 1
  /\ tensors0' = tensors
  /\ cancelInRound' = FALSE
  /\ deliveredToAux' = FALSE
  /\ invTrigger' = trigger
  /\ invCancelled' = StepCancelled(outcome)
  /\ UNCHANGED <<mm, found, mmExc, outcome, excSet, exc, excSrc, stage, trigger,
                 cancelFut, userPc, now, deadline, allow_retries, attempts,
                 registered, mode, tensors, hValid, hDone, hNow, hExc,
                 chkCancelled>>
  /\ UNCHANGED othersOfStep

\* lines 411-423: the runner is created and published under the group's id; the
\* lookup in _running_groups (parent class) either succeeds or raises KeyError
\* when the group is no longer registered
AggSetup ==
  /\ pc = "agg_setup"
  /\ \/ /\ pc' = "agg_iter"
        /\ UNCHANGED <<exc, excSrc>>
     \/ /\ ~registered
        /\ exc' = "MatchmakingException" /\ excSrc' = "allreduce"
        /\ pc' = "handler"
  /\ UNCHANGED <<mm, found, mmExc, outcome, excSet, stage, trigger, cancelFut,
                 userPc, now, deadline, allow_retries, attempts, registered, mode,
                 tensors, nextTensor, stepHist>>
  /\ UNCHANGED othersOfStep

\* lines 429-433: one averaged update is added to the next local tensor
AggUpdate ==
  /\ pc = "agg_iter"
  /\ ReceivesAverage(mode)
  /\ nextTensor <= NumTensors
  /\ tensors' = [tensors EXCEPT ![nextTensor] = @ + 1]
  /\ nextTensor' = nextTensor + 1
  /\ UNCHANGED <<pc, mm, found, mmExc, outcome, excSet, exc, excSrc, stage,
                 trigger, cancelFut, userPc, now, deadline, allow_retries,
                 attempts, registered, mode, stepHist>>
  /\ UNCHANGED othersOfStep

\* lines 435-438: an averaged part reaches a peer that must not receive one
AggAuxYield ==
  /\ pc = "agg_iter"
  /\ ~ReceivesAverage(mode)
  /\ deliveredToAux' = TRUE
  /\ exc' = "MatchmakingException" /\ excSrc' = "allreduce"
  /\ pc' = "handler"
  /\ UNCHANGED <<mm, found, mmExc, outcome, excSet, stage, trigger, cancelFut,
                 userPc, now, deadline, allow_retries, attempts, registered, mode,
                 tensors, nextTensor, tensors0, cancelInRound, hValid, hDone,
                 hNow, hExc, chkCancelled, invTrigger, invCancelled>>
  /\ UNCHANGED othersOfStep

\* lines 441-444: the runner raises; every error is re-raised as
\* MatchmakingException
AggFail ==
  /\ pc = "agg_iter"
  /\ exc' = "MatchmakingException" /\ excSrc' = "allreduce"
  /\ pc' = "handler"
  /\ UNCHANGED <<mm, found, mmExc, outcome, excSet, stage, trigger, cancelFut,
                 userPc, now, deadline, allow_retries, attempts, registered, mode,
                 tensors, nextTensor, stepHist>>
  /\ UNCHANGED othersOfStep

\* line 342: asyncio.wait_for times out; the cancelled coroutine re-raises as
\* MatchmakingException (441-444), which wait_for passes on or replaces by
\* TimeoutError depending on the interpreter
AggTimeout ==
  /\ pc \in AllreducePcs
  /\ \E e \in {"MatchmakingException", "Unexpected"} :
       /\ exc' = e /\ excSrc' = "allreduce"
       /\ pc' = IF e \in Retryable THEN "handler" ELSE "outer_except"
  /\ UNCHANGED <<mm, found, mmExc, outcome, excSet, stage, trigger, cancelFut,
                 userPc, now, deadline, allow_retries, attempts, registered, mode,
                 tensors, nextTensor, stepHist>>
  /\ UNCHANGED othersOfStep

\* lines 440, 334: _aggregate_with_group returns and step.set_result is called;
\* on a step that is already done set_result raises InvalidStateError
AggReturn ==
  /\ pc = "agg_iter"
  /\ ~ReceivesAverage(mode) \/ nextTensor > NumTensors
  /\ IF StepDone(outcome)
       THEN /\ exc' = "InvalidStateError" /\ excSrc' = "set_result"
            /\ pc' = "handler"
            /\ UNCHANGED outcome
       ELSE /\ outcome' = "result"
            /\ pc' = "loop"
            /\ UNCHANGED <<exc, excSrc>>
  /\ UNCHANGED <<mm, found, mmExc, excSet, stage, trigger, cancelFut, userPc, now,
                 deadline, allow_retries, attempts, registered, mode, tensors,
                 nextTensor, stepHist>>
  /\ UNCHANGED othersOfStep

\* lines 345-367: the handler of the retryable failures
Handler ==
  /\ pc = "handler"
  /\ LET giveUp == GiveUp(outcome, allow_retries, now, deadline)
         o2 == HandlerOutcome(outcome, giveUp)
     IN /\ outcome' = o2
        /\ excSet' = IF o2 = "exception" /\ outcome /= "exception" THEN exc ELSE excSet
  /\ hValid' = TRUE /\ hDone' = StepDone(outcome) /\ hNow' = now /\ hExc' = exc
  /\ exc' = "none" /\ excSrc' = "none"
  /\ pc' = "loop"
  /\ UNCHANGED <<mm, found, mmExc, stage, trigger, cancelFut, userPc, now,
                 deadline, allow_retries, attempts, registered, mode, tensors,
                 nextTensor, tensors0, cancelInRound, deliveredToAux,
                 chkCancelled, invTrigger, invCancelled>>
  /\ UNCHANGED othersOfStep

\* lines 369-372: any other exception
OuterExcept ==
  /\ pc = "outer_except"
  /\ IF ~StepDone(outcome)
       THEN outcome' = "exception" /\ excSet' = exc
       ELSE UNCHANGED <<outcome, excSet>>
  /\ exc' = "none" /\ excSrc' = "none"
  /\ pc' = "finally"
  /\ UNCHANGED <<mm, found, mmExc, stage, trigger, cancelFut, userPc, now,
                 deadline, allow_retries, attempts, registered, mode, tensors,
                 nextTensor, stepHist>>
  /\ UNCHANGED othersOfStep

\* lines 373-381
Finally ==
  /\ pc = "finally"
  /\ stage' = FinalStage
  /\ IF ~StepDone(outcome)
       THEN outcome' = "exception" /\ excSet' = "RuntimeError"
       ELSE UNCHANGED <<outcome, excSet>>
  /\ pc' = "exited"
  /\ UNCHANGED <<mm, found, mmExc, exc, excSrc, trigger, cancelFut, userPc, now,
                 deadline, allow_retries, attempts, registered, mode, tensors,
                 nextTensor, stepHist>>
  /\ UNCHANGED othersOfStep

\* ------------------------------------------ the caller's side of the step

\* lines 283-284 (and 602): step.allow_allreduce() fires the trigger
UserTrigger ==
  /\ pc /= "init"
  /\ userPc = "idle"
  /\ trigger = "pending"
  /\ trigger' = "fired"
  /\ UNCHANGED <<pc, mm, found, mmExc, outcome, excSet, exc, excSrc, stage,
                 cancelFut, userPc, now, deadline, allow_retries, attempts,
                 registered, mode, tensors, nextTensor, stepHist>>
  /\ UNCHANGED othersOfStep

\* step.cancel() called in the caller's process: it cancels the trigger future,
\* resolves the cancel future (awaited at line 313), then cancels the step future
\* (read at line 319); the averager runs concurrently with the three writes
UserCancelTrigger ==
  /\ pc /= "init"
  /\ userPc = "idle"
  /\ trigger' = IF trigger = "pending" THEN "cancelled" ELSE trigger
  /\ userPc' = "cancel1"
  /\ UNCHANGED <<pc, mm, found, mmExc, outcome, excSet, exc, excSrc, stage,
                 cancelFut, now, deadline, allow_retries, attempts, registered,
                 mode, tensors, nextTensor, stepHist>>
  /\ UNCHANGED othersOfStep

UserCancelSignal ==
  /\ userPc = "cancel1"
  /\ cancelFut' = "set"
  /\ userPc' = "cancel2"
  /\ cancelInRound' = (cancelInRound \/ pc \in AllreducePcs)
  /\ UNCHANGED <<pc, mm, found, mmExc, outcome, excSet, exc, excSrc, stage,
                 trigger, now, deadline, allow_retries, attempts, registered,
                 mode, tensors, nextTensor, tensors0, deliveredToAux, hValid,
                 hDone, hNow, hExc, chkCancelled, invTrigger, invCancelled>>
  /\ UNCHANGED othersOfStep

UserCancelStep ==
  /\ userPc = "cancel2"
  /\ outcome' = IF StepDone(outcome) THEN outcome ELSE "cancelled"
  /\ userPc' = "done"
  /\ UNCHANGED <<pc, mm, found, mmExc, excSet, exc, excSrc, stage, trigger,
                 cancelFut, now, deadline, allow_retries, attempts, registered,
                 mode, tensors, nextTensor, stepHist>>
  /\ UNCHANGED othersOfStep

\* get_dht_time() advances (line 358)
Tick ==
  /\ pc \notin {"init", "exited"}
  /\ now < MaxTime
  /\ now' = now + 1
  /\ UNCHANGED <<pc, mm, found, mmExc, outcome, excSet, exc, excSrc, stage,
                 trigger, cancelFut, userPc, deadline, allow_retries, attempts,
                 registered, mode, tensors, nextTensor, stepHist>>
  /\ UNCHANGED othersOfStep

NextStep ==
  \/ StepInit \/ LoopCheck \/ MMReturn \/ MMRaise \/ MMWake \/ WaitReturn
  \/ AwaitMM \/ RegisterGroup \/ UnregisterGroup \/ AggInvoke \/ AggSetup
  \/ AggUpdate \/ AggAuxYield \/ AggFail \/ AggTimeout \/ AggReturn
  \/ Handler \/ OuterExcept \/ Finally
  \/ UserTrigger \/ UserCancelTrigger \/ UserCancelSignal \/ UserCancelStep
  \/ Tick

\* ======================================================== state recovery

Epochs == 0..MaxEpoch

\* what load_state_from_peers_with_latest_state hands back (line 823): None, or
\* (metadata, flat_tensors); opt says how load_optimizer_state fares on it
NoState == [some |-> FALSE, epochIsInt |-> FALSE, epoch |-> 0, n |-> 0, opt |-> "ok"]
LoadedStates ==
  {NoState}
  \cup {[NoState EXCEPT !.some = TRUE]}                    \* metadata without an int epoch
  \cup [some : {TRUE}, epochIsInt : {TRUE}, epoch : Epochs,
        n : {NumParams - 1}, opt : {"ok"}]                   \* too few tensors
  \cup [some : {TRUE}, epochIsInt : {TRUE}, epoch : Epochs,
        n : {NumParams}, opt : {"ok", "StopIteration", "error"}]

Min(a, b) == IF a < b THEN a ELSE b

\* refs.tags[-1] (lines 899, 925, 927)
LastTag(tags) == tags[Len(tags)]

\* lines 830-832: the peer's epoch is behind the local epoch
EpochBehindNever(d, l) == FALSE
EpochBehind(d, l) == d < l

\* load_final_state_from_peers (810-869) on the downloaded state ld, for local
\* epoch l, parameters p and optimizer state o
LoadFinal(l, p, o, ld) ==
  LET same == [ok |-> FALSE, raised |-> FALSE, local_epoch |-> l, params |-> p,
               opt_state |-> o]
  IN IF ~ld.some THEN same                                         \* 826-827
     ELSE IF ~ld.epochIsInt \/ EpochBehind(ld.epoch, l) THEN same  \* 830-836
     ELSE IF NumParams /= Min(ld.n, NumParams) THEN same           \* 838-844
     ELSE IF ld.opt = "StopIteration" THEN same                    \* 851-855
     ELSE IF ld.opt = "error" THEN [same EXCEPT !.raised = TRUE]   \* 848-850
     ELSE [ok |-> TRUE, raised |-> FALSE, local_epoch |-> ld.epoch, \* 857-869
           params |-> <<"peer", ld.epoch>>, opt_state |-> <<"peer", ld.epoch>>]

\* the epoch a downloaded state carries, -1 when there is no state or no int epoch
EpochOf(ld) == IF ld.some /\ ld.epochIsInt THEN ld.epoch ELSE -1

NoOp == [name |-> "none", d |-> -1, ok |-> FALSE, raised |-> FALSE, hub |-> FALSE,
         target |-> 0]

InitRecovery ==
  /\ sa_local_epoch = 0 /\ tracker_epoch = 0
  /\ neuron_local_epoch = 0 /\ local_progress_epoch = 0
  /\ params = <<"local", 0>> /\ opt_state = <<"local", 0>>
  /\ model_src = <<"local", 0>>
  /\ global_epoch = 0
  /\ hub_tags = <<>>
  /\ lastOp = NoOp

IdleRecovery == InitRecovery

\* the optimizer finishes a local epoch (neurons/miner.py, self.opt.step())
TrainEpoch ==
  /\ sa_local_epoch < MaxEpoch /\ tracker_epoch < MaxEpoch
  /\ sa_local_epoch' = sa_local_epoch + 1
  /\ tracker_epoch' = tracker_epoch + 1
  /\ params' = <<"local", sa_local_epoch + 1>>
  /\ opt_state' = <<"local", sa_local_epoch + 1>>
  /\ model_src' = <<"local", sa_local_epoch + 1>>
  /\ lastOp' = NoOp
  /\ UNCHANGED <<neuron_local_epoch, local_progress_epoch, global_epoch, hub_tags>>
  /\ UNCHANGED othersOfRecovery

\* another peer tags a checkpoint in the model repository (read at 898, 924);
\* like lines 927-934 it tags only an epoch newer than the last tag
HubTagPushed ==
  /\ \E e \in Epochs :
       /\ Len(hub_tags) > 0 => LastTag(hub_tags) < e
       /\ hub_tags' = Append(hub_tags, e)
  /\ lastOp' = NoOp
  /\ UNCHANGED <<sa_local_epoch, params, opt_state, model_src, tracker_epoch,
                 neuron_local_epoch, local_progress_epoch, global_epoch>>
  /\ UNCHANGED othersOfRecovery

\* DTStateAverager.load_final_state_from_peers called on its own (810-869)
LoadFinalStateFromPeers ==
  /\ \E ld \in LoadedStates :
       LET r == LoadFinal(sa_local_epoch, params, opt_state, ld)
       IN /\ sa_local_epoch' = r.local_epoch
          /\ params' = r.params
          /\ opt_state' = r.opt_state
          /\ lastOp' = [NoOp EXCEPT !.name = "load_final", !.d = EpochOf(ld),
                                     !.ok = r.ok, !.raised = r.raised]
  /\ UNCHANGED <<model_src, tracker_epoch, neuron_local_epoch,
                 local_progress_epoch, global_epoch, hub_tags>>
  /\ UNCHANGED othersOfRecovery

\* lines 908-913: the bare except keeps an exception of
\* load_final_state_from_peers from leaving load_state_from_peer
PeerPathRaisesUncaught(r) == r.raised
PeerPathRaises(r) == FALSE

\* load_state_from_peer(epoch) (889-934). With epoch None (refresh),
\* update_global_tracker_state reads self.global_progress.epoch anew and the
\* target is that value (890-892); otherwise the cached global epoch stays and
\* the target is the epoch passed. g is self.global_progress.epoch during the call.
LoadStateFromPeer ==
  /\ \E refresh \in BOOLEAN, e \in Epochs, ld \in LoadedStates :
       LET g == IF refresh THEN e ELSE global_epoch
           hubHit == Len(hub_tags) > 0 /\ LastTag(hub_tags) >= g        \* 899
           revision == \E i \in 1..Len(hub_tags) : hub_tags[i] = g      \* 901-904
           r == LoadFinal(sa_local_epoch, params, opt_state, ld)        \* 909
           loaded == IF hubHit THEN revision ELSE (~r.raised /\ r.ok)
           raisedEarly == (hubHit /\ ~revision) \/ (~hubHit /\ PeerPathRaises(r))
           \* line 925 reads refs.tags[-1] of a repository without tags
           raisedLate == loaded /\ Len(hub_tags) = 0
       IN /\ global_epoch' = g
          /\ IF hubHit
               THEN /\ model_src' = IF revision THEN <<"hub", g>> ELSE model_src
                    /\ UNCHANGED <<sa_local_epoch, params, opt_state>>
               ELSE /\ sa_local_epoch' = r.local_epoch
                    /\ params' = r.params
                    /\ opt_state' = r.opt_state
                    /\ model_src' = IF r.ok THEN <<"peer", ld.epoch>> ELSE model_src
          /\ IF loaded                                                 \* 915-922
               THEN /\ tracker_epoch' = g
                    /\ neuron_local_epoch' = local_progress_epoch
                    /\ local_progress_epoch' = g
               ELSE UNCHANGED <<tracker_epoch, neuron_local_epoch,
                                local_progress_epoch>>
          /\ hub_tags' = IF loaded /\ Len(hub_tags) > 0                 \* 927-934
                            /\ LastTag(hub_tags) < g
                           THEN Append(hub_tags, g) ELSE hub_tags
          /\ lastOp' = [name |-> "load_state_from_peer",
                        d |-> IF hubHit THEN -1 ELSE EpochOf(ld),
                        ok |-> loaded, raised |-> (raisedEarly \/ raisedLate),
                        hub |-> hubHit, target |-> e]
  /\ UNCHANGED othersOfRecovery

NextRecovery ==
  \/ TrainEpoch \/ HubTagPushed \/ LoadFinalStateFromPeers \/ LoadStateFromPeer

\* ============================================================ ban protocol

Senders == 1..NumSenders

\* the places that call _ban_sender for a sender: the handler serving that
\* sender's stream, and the watchdog for senders that never show up
Callers == Senders \X {"rpc", "timeout"}

\* self.sender_peer_ids: the senders of the group, in group order
sender_peer_ids == [i \in 1..NumSenders |-> i]

\* line 217: self.sender_peer_ids.index(peer_id); the reducer's per-sender
\* state is kept under that position
PositionInGroup(p) == (p % NumSenders) + 1
SenderIndex(p) == CHOOSE i \in DOMAIN sender_peer_ids : sender_peer_ids[i] = p

\* line 214: peer_id not in self.banned_senders
NeverBanned(p, banned) == TRUE
NotBanned(p, banned) == p \notin banned

InitBan ==
  /\ banned_senders = {}
  /\ accumulated_from = [i \in DOMAIN sender_peer_ids |-> 0]
  /\ failed_calls = [p \in Senders |-> 0]
  /\ banlock = "free"
  /\ banPc = [c \in Callers |-> "idle"]
  /\ banRaised = [c \in Callers |-> FALSE]

IdleBan == InitBan

\* a transport failure of sender c[1] makes caller c call _ban_sender (212)
BanCall(c) ==
  /\ banPc[c] = "idle"
  /\ banPc' = [banPc EXCEPT ![c] = "waiting"]
  /\ UNCHANGED <<banned_senders, failed_calls, banlock, banRaised,
                 accumulated_from>>
  /\ UNCHANGED othersOfBan

\* line 213: async with self.banlock
BanAcquire(c) ==
  /\ banPc[c] = "waiting"
  /\ banlock = "free"
  /\ banlock' = c
  /\ banPc' = [banPc EXCEPT ![c] = "locked"]
  /\ UNCHANGED <<banned_senders, failed_calls, banRaised, accumulated_from>>
  /\ UNCHANGED othersOfBan

\* lines 214-222: the body under the lock; leaving the block releases the lock
BanBody(c) ==
  /\ banPc[c] = "locked"
  /\ IF NotBanned(c[1], banned_senders)
       THEN /\ banned_senders' = banned_senders \cup {c[1]}
            /\ failed_calls' = [failed_calls EXCEPT ![SenderIndex(c[1])] = @ + 1]
            /\ banRaised' = [banRaised EXCEPT ![c] = TRUE]
       ELSE UNCHANGED <<banned_senders, failed_calls, banRaised>>
  /\ banlock' = "free"
  /\ banPc' = [banPc EXCEPT ![c] = "done"]
  /\ UNCHANGED accumulated_from
  /\ UNCHANGED othersOfBan

\* lines 172-173: the inherited handler accumulates one more part sent by
\* sender p; the reducer takes no part from a sender reported as failed
SenderPart(p) ==
  /\ failed_calls[SenderIndex(p)] = 0
  /\ accumulated_from[SenderIndex(p)] < MaxParts
  /\ accumulated_from' = [accumulated_from EXCEPT ![SenderIndex(p)] = @ + 1]
  /\ UNCHANGED <<banned_senders, failed_calls, banlock, banPc, banRaised>>
  /\ UNCHANGED othersOfBan

NextBan ==
  \/ \E c \in Callers : BanCall(c) \/ BanAcquire(c) \/ BanBody(c)
  \/ \E p \in Senders : SenderPart(p)

\* ================================================= gradient accumulation
\* The gradients g1, g2, ... accumulated since the last reset are opaque tensors.
\* A tensor that is a linear combination c1*g1 + c2*g2 + ... of them is modelled
\* by its sequence of coefficients <<c1, c2, ...>>, the zero tensor by <<>>;
\* fractions keep numerator and denominator apart, so the arithmetic is exact.

BatchSizes == {8, 16}
ControlIds == 1..MaxControls

\* weight argument of DTGradientAverager.step (line 566): <<>> is None, <<w>> an
\* explicit weight
WeightArgs == {<<>>, <<5>>}

ZeroFrac == [num |-> <<>>, den |-> 1]

NoControl == [exists |-> FALSE, trigger |-> "pending", weight |-> 1,
              outcome |-> "pending"]

\* what DTAverager.step(wait=False, require_trigger=True) returns (560-562, 264-285):
\* a control whose trigger is pending; its weight is float(mode != AUX) (246)
FreshControl == [NoControl EXCEPT !.exists = TRUE]

\* line 588: the control was already used
ControlUsedNever(t) == FALSE
ControlUsed(t) == Triggered(t)

\* line 599
StepWeightAfterReset(w, samples) == IF w = <<>> THEN 0 ELSE w[1]
StepWeight(w, samples) == IF w = <<>> THEN samples ELSE w[1]

\* lines 531-533: the anchor is the first batch size since the last reset
AnchorLatest(anchor, b) == b
AnchorAfter(anchor, b) == IF anchor = 0 THEN b ELSE anchor

\* lines 539-543: grad_acc += alpha * grad_buf with alpha = batch_size / anchor;
\* acc holds the coefficients as multiples of 1/anchor
AddGrad(acc, b) == Append(acc, b)

\* line 589: the condition of the warning about unused results
WarnWhenever(new, w) == w
WarnUnused(new, w) == new /\ w

\* lines 610-619: the buffer becomes the accumulator times 1/times_accumulated,
\* or 0 when nothing was accumulated
ScaleBySamples(acc, anchor, times, samples) ==
  IF times = 0 THEN ZeroFrac ELSE [num |-> acc, den |-> samples]
LoadAccumulators(acc, anchor, times, samples) ==
  IF times = 0 THEN ZeroFrac ELSE [num |-> acc, den |-> anchor * times]

NoLastStep == [c |-> 0, rejected |-> FALSE, w |-> <<>>, reset |-> FALSE,
               warned |-> FALSE]

\* DTGradientAverager.__init__ (448-503) with the settings reuse and w
Constructed(reuse, w) ==
  /\ reuse_grad_buffers = reuse /\ warn = w                            \* 467-468
  /\ local_samples_accumulated = 0 /\ local_times_accumulated = 0      \* 469-470
  /\ anchor_batch_size = 0 /\ local_accumulators = <<>>               \* 471-477
  /\ averaged_grads = ZeroFrac                                         \* 483-486
  /\ accumulators_used_in_step = FALSE /\ new_averaged_grads = FALSE   \* 478-479
  /\ controls = [c \in ControlIds |-> NoControl]
  /\ accLog = <<>> /\ bufFresh = FALSE
  /\ stepLog = [c \in ControlIds |-> 0]
  /\ lastStep = NoLastStep /\ roundUnused = FALSE

\* the defaults of lines 454 and 457
InitGrad == Constructed(FALSE, TRUE)

InitGradConfig == \E reuse \in BOOLEAN, w \in BOOLEAN : Constructed(reuse, w)

IdleGrad == InitGrad

\* accumulate_grads_(batch_size) (522-543); with reuse_grad_buffers the
\* accumulators are the .grad buffers of the parameters, to which the call
\* adds nothing (536-537)
AccumulateGrads ==
  /\ local_times_accumulated < MaxAccum
  /\ \E b \in BatchSizes :
       /\ anchor_batch_size' = AnchorAfter(anchor_batch_size, b)       \* 531-533
       /\ local_samples_accumulated' = local_samples_accumulated + b   \* 534
       /\ local_times_accumulated' = local_times_accumulated + 1       \* 535
       /\ local_accumulators' =                                        \* 536-543
            IF reuse_grad_buffers THEN local_accumulators
                                  ELSE AddGrad(local_accumulators, b)
       /\ accLog' = Append(accLog, b)
  /\ accumulators_used_in_step' =                                      \* 525-530
       IF warn THEN FALSE ELSE accumulators_used_in_step
  /\ UNCHANGED <<averaged_grads, new_averaged_grads, controls,
                 reuse_grad_buffers, warn>>
  /\ lastStep' = NoLastStep
  /\ UNCHANGED <<bufFresh, stepLog, roundUnused>>
  /\ UNCHANGED othersOfGrad

\* reset_accumulated_grads_ (621-628), as the primed values of the accumulators
ResetAccumulators ==
  /\ accumulators_used_in_step' = FALSE
  /\ local_samples_accumulated' = 0 /\ local_times_accumulated' = 0
  /\ anchor_batch_size' = 0
  /\ local_accumulators' = <<>>
  /\ accLog' = <<>>

\* the caller resets the accumulators itself
ResetAccumulatedGrads ==
  /\ local_times_accumulated > 0
  /\ ResetAccumulators
  /\ UNCHANGED <<averaged_grads, new_averaged_grads, controls,
                 reuse_grad_buffers, warn>>
  /\ lastStep' = NoLastStep
  /\ UNCHANGED <<bufFresh, stepLog, roundUnused>>
  /\ UNCHANGED othersOfGrad

\* schedule_step (545-562): matchmaking starts for a new control
ScheduleStep ==
  /\ \E c \in ControlIds :
       /\ ~controls[c].exists
       /\ \A d \in ControlIds : d < c => controls[d].exists
       /\ controls' = [controls EXCEPT ![c] = FreshControl]
  /\ UNCHANGED <<local_samples_accumulated, local_times_accumulated,
                 anchor_batch_size, local_accumulators, averaged_grads,
                 accumulators_used_in_step, new_averaged_grads,
                 reuse_grad_buffers, warn>>
  /\ lastStep' = NoLastStep
  /\ UNCHANGED <<accLog, bufFresh, stepLog, roundUnused>>
  /\ UNCHANGED othersOfGrad

\* DTGradientAverager.step (564-604) with control c, which is a control scheduled
\* before or the one line 583 schedules
GradStep ==
  \E c \in ControlIds, fresh \in BOOLEAN, w \in WeightArgs, reset \in BOOLEAN :
    /\ IF fresh THEN /\ ~controls[c].exists
                     /\ \A d \in ControlIds : d < c => controls[d].exists
                ELSE controls[c].exists
    /\ LET ctl == IF fresh THEN FreshControl ELSE controls[c]
           call == [c |-> c, rejected |-> FALSE, w |-> w, reset |-> reset,
                    warned |-> WarnUnused(new_averaged_grads, warn)]   \* 589-593
       IN IF ControlUsed(ctl.trigger)
            THEN \* 588: AssertionError
                 /\ lastStep' = [NoLastStep EXCEPT !.c = c, !.rejected = TRUE]
                 /\ UNCHANGED gradVars
                 /\ UNCHANGED <<accLog, bufFresh, stepLog, roundUnused>>
            ELSE /\ UNCHANGED <<reuse_grad_buffers, warn>>
                 /\ roundUnused' = TRUE
                 /\ averaged_grads' =                                  \* 595
                       LoadAccumulators(local_accumulators, anchor_batch_size,
                                        local_times_accumulated,
                                        local_samples_accumulated)
                 /\ bufFresh' = TRUE
                 /\ new_averaged_grads' = TRUE                         \* 597
                 /\ controls' = [controls EXCEPT ![c] =                \* 599, 602
                       [ctl EXCEPT !.weight = StepWeight(w, local_samples_accumulated),
                                   !.trigger = "fired"]]
                 /\ IF reset                                           \* 600-601
                      THEN ResetAccumulators
                      ELSE /\ accumulators_used_in_step' = TRUE        \* 596
                           /\ UNCHANGED <<local_samples_accumulated,
                                          local_times_accumulated,
                                          anchor_batch_size, local_accumulators,
                                          accLog>>
                 /\ stepLog' = [stepLog EXCEPT ![c] = @ + 1]
                 /\ lastStep' = call
    /\ UNCHANGED othersOfGrad

\* the averaging round of control c ends (DTAverager._step_custom, 306-381):
\* with a result only after the trigger fired, in which case the all-reduce
\* replaced the content of the buffer by the group's average (429-433); with an
\* exception at any time
RoundEnd ==
  /\ \E c \in ControlIds, o \in {"result", "exception"} :
       /\ controls[c].exists /\ controls[c].outcome = "pending"
       /\ o = "result" => Triggered(controls[c].trigger)
       /\ controls' = [controls EXCEPT ![c].outcome = o]
       /\ IF o = "result"
            THEN averaged_grads' = ZeroFrac /\ bufFresh' = FALSE
            ELSE UNCHANGED <<averaged_grads, bufFresh>>
  /\ UNCHANGED <<local_samples_accumulated, local_times_accumulated,
                 anchor_batch_size, local_accumulators,
                 accumulators_used_in_step, new_averaged_grads,
                 reuse_grad_buffers, warn>>
  /\ lastStep' = NoLastStep
  /\ UNCHANGED <<accLog, stepLog, roundUnused>>
  /\ UNCHANGED othersOfGrad

\* notify_used_averaged_gradients (652-654), or the entry of
\* use_averaged_gradients (639): either clears the flag
NotifyUsedAveragedGradients ==
  /\ new_averaged_grads
  /\ new_averaged_grads' = FALSE
  /\ roundUnused' = FALSE
  /\ UNCHANGED <<local_samples_accumulated, local_times_accumulated,
                 anchor_batch_size, local_accumulators, averaged_grads,
                 accumulators_used_in_step, controls, reuse_grad_buffers, warn>>
  /\ lastStep' = NoLastStep
  /\ UNCHANGED <<accLog, bufFresh, stepLog>>
  /\ UNCHANGED othersOfGrad

\* line 604: the caller has the outcome of a finished step and drops the
\* control; a later step comes with a new control
ForgetControl ==
  /\ \E c \in ControlIds :
       /\ controls[c].exists /\ controls[c].outcome /= "pending"
       /\ \A d \in ControlIds : d > c => ~controls[d].exists
       /\ controls' = [controls EXCEPT ![c] = NoControl]
       /\ stepLog' = [stepLog EXCEPT ![c] = 0]
  /\ UNCHANGED <<local_samples_accumulated, local_times_accumulated,
                 anchor_batch_size, local_accumulators, averaged_grads,
                 accumulators_used_in_step, new_averaged_grads,
                 reuse_grad_buffers, warn>>
  /\ lastStep' = NoLastStep
  /\ UNCHANGED <<accLog, bufFresh, roundUnused>>
  /\ UNCHANGED othersOfGrad

NextGrad ==
  \/ AccumulateGrads \/ ResetAccumulatedGrads \/ ScheduleStep \/ GradStep
  \/ RoundEnd \/ NotifyUsedAveragedGradients

\* the averager over successive rounds, each with a control of its own
NextGradRounds == NextGrad \/ ForgetControl

\* ========================================================= state download

\* the local peer (self.peer_id, line 761) and the remote peers
Self == 0
Remote == 1..NumRemote
Peers == {Self} \cup Remote

\* how the stream of a contacted peer ends (767-792):
\*   "fail"      an exception before any metadata arrived
\*   "fail_meta" metadata arrived, then an exception (timeout, transport error)
\*   "nometa"    a clean end of stream without metadata
\*   "short"     metadata and fewer tensors than the local state has
\*   "full"      metadata and all tensors
StreamOutcomes == {"fail", "fail_meta", "nometa", "short", "full"}

\* the stream raised: the except clause of 801-804 takes over
StreamFailed(out) == out \in {"fail", "fail_meta"}

\* a message with metadata was received (776-777)
SentMetadata(out) == out \in {"fail_meta", "short", "full"}

\* the number of tensors collected from the stream (778-792)
TensorCount(out) == IF out = "full" THEN NumParams ELSE NumParams - 1

NoResult == [state |-> "none", meta |-> Self, tensors |-> Self, n |-> 0]
PendingResult == [NoResult EXCEPT !.state = "pending"]

\* lines 806-808: the finally clause resolves a future that is not done yet
FutureNeverDone(f) == FALSE
FutureDone(f) == f.state /= "pending"
ResolvedInFinally(f) == IF FutureDone(f) THEN f ELSE NoResult
SetsInFinally(f) == IF FutureDone(f) THEN 0 ELSE 1

\* lines 724-732: the peers whose progress record is not None and has
\* epoch == global_epoch
ValidPeerEntries(dir, g) == {p \in Peers : dir[p] = <<g>>}

\* lines 739-748: the valid peers with a numeric priority
PeerPriority(dir, prio, g) == {p \in ValidPeerEntries(dir, g) : prio[p] > 0}

\* lines 758-760: sorted by (priority, random.random()), descending; peers of
\* equal priority come in any order
SortedOrders(cands, prio) ==
  {o \in [1..Cardinality(cands) -> cands] :
     /\ \A i, j \in 1..Cardinality(cands) : i /= j => o[i] /= o[j]
     /\ \A i, j \in 1..Cardinality(cands) : i < j => prio[o[i]] >= prio[o[j]]}

InitDownload ==
  /\ dlPc = "idle" /\ dlEpoch = 0 /\ dlHasDir = FALSE
  /\ dlDir = [p \in Peers |-> <<>>]
  /\ dlPrio = [p \in Peers |-> 0]
  /\ dlOrder = <<>> /\ dlIdx = 1 /\ dlMetadata = <<>>
  /\ dlFuture = PendingResult /\ dlRaised = FALSE
  /\ dlLog = <<>> /\ dlSets = 0

IdleDownload == InitDownload

\* load_state_from_peers_with_latest_state (680-700) hands the request to the
\* averager process; the directory holds the records the peers published
DownloadCall ==
  /\ dlPc = "idle"
  /\ \E g \in Epochs, has \in BOOLEAN,
        dir \in [Peers -> {<<>>} \cup {<<e>> : e \in Epochs}],
        prio \in [Peers -> 0..2] :
       /\ ~has => (dir = dlDir /\ prio = dlPrio)
       /\ dlEpoch' = g /\ dlHasDir' = has /\ dlDir' = dir /\ dlPrio' = prio
  /\ dlPc' = "lookup"
  /\ UNCHANGED <<dlOrder, dlIdx, dlMetadata, dlFuture, dlRaised, dlLog, dlSets>>
  /\ UNCHANGED othersOfDownload

\* lines 712-757: read the directory and select the candidates. The class
\* LocalTrainingProgress of lines 72-74 declares no field peer_id: the
\* attribute read of line 725 raises AttributeError for the first record that
\* passes the filter unless the parsed object keeps undeclared fields (attr).
DownloadLookup ==
  /\ dlPc = "lookup"
  /\ IF ~dlHasDir
       THEN /\ dlFuture' = ResolvedInFinally(NoResult)                \* 719-722
            /\ dlSets' = dlSets + 1 + SetsInFinally(NoResult)
            /\ dlPc' = "done"
            /\ UNCHANGED <<dlOrder, dlRaised>>
       ELSE \E attr \in BOOLEAN :
              IF ValidPeerEntries(dlDir, dlEpoch) /= {} /\ ~attr
                THEN /\ dlFuture' = ResolvedInFinally(dlFuture)        \* 806-808
                     /\ dlSets' = dlSets + SetsInFinally(dlFuture)
                     /\ dlRaised' = TRUE /\ dlPc' = "done"
                     /\ UNCHANGED dlOrder
                ELSE LET cands == PeerPriority(dlDir, dlPrio, dlEpoch)
                     IN IF cands = {}
                          THEN /\ dlFuture' = ResolvedInFinally(NoResult) \* 750-755
                               /\ dlSets' = dlSets + 1 + SetsInFinally(NoResult)
                               /\ dlPc' = "done"
                               /\ UNCHANGED <<dlOrder, dlRaised>>
                          ELSE /\ \E o \in SortedOrders(cands, dlPrio) :
                                    dlOrder' = o
                               /\ dlPc' = "loop"
                               /\ UNCHANGED <<dlFuture, dlRaised, dlSets>>
  /\ UNCHANGED <<dlEpoch, dlHasDir, dlDir, dlPrio, dlIdx, dlMetadata, dlLog>>
  /\ UNCHANGED othersOfDownload

\* one iteration of the loop of lines 758-804
DownloadFromPeer ==
  /\ dlPc = "loop" /\ dlIdx <= Len(dlOrder)
  /\ LET peer == dlOrder[dlIdx]
     IN IF peer = Self
          THEN /\ dlIdx' = dlIdx + 1                                   \* 761
               /\ UNCHANGED <<dlPc, dlMetadata, dlFuture, dlLog, dlSets>>
          ELSE \E out \in StreamOutcomes :
                 LET md == IF SentMetadata(out) THEN <<peer>> ELSE dlMetadata
                     pair == [state |-> "pair", meta |-> md[1], tensors |-> peer,
                              n |-> TensorCount(out)]
                 IN /\ dlMetadata' = md                                \* 776-777
                    /\ dlLog' = Append(dlLog, [peer |-> peer, out |-> out])
                    /\ IF StreamFailed(out) \/ md = <<>>               \* 801-804, 794-796
                         THEN /\ dlIdx' = dlIdx + 1
                              /\ UNCHANGED <<dlPc, dlFuture, dlSets>>
                         ELSE /\ dlFuture' = ResolvedInFinally(pair)   \* 798-800, 806-808
                              /\ dlSets' = dlSets + 1 + SetsInFinally(pair)
                              /\ dlPc' = "done"
                              /\ UNCHANGED dlIdx
  /\ UNCHANGED <<dlEpoch, dlHasDir, dlDir, dlPrio, dlOrder, dlRaised>>
  /\ UNCHANGED othersOfDownload

\* the loop ran out of candidates: the finally clause resolves the future (806-808)
DownloadExhausted ==
  /\ dlPc = "loop" /\ dlIdx > Len(dlOrder)
  /\ dlFuture' = ResolvedInFinally(dlFuture)
  /\ dlSets' = dlSets + SetsInFinally(dlFuture)
  /\ dlPc' = "done"
  /\ UNCHANGED <<dlEpoch, dlHasDir, dlDir, dlPrio, dlOrder, dlIdx, dlMetadata,
                 dlRaised, dlLog>>
  /\ UNCHANGED othersOfDownload

NextDownload ==
  \/ DownloadCall \/ DownloadLookup \/ DownloadFromPeer \/ DownloadExhausted

\* ================================================= exchange with reducers

\* the remote peers of the group that reduce a part of the vector
Reducers == {"A", "B"}

\* how an exchange can fail (lines 102, 112-115, 120, 128-135, and cancellation
\* of the task)
ExchangeFailures == {"transport", "timeout", "bad_code", "count_mismatch", "cancelled"}

\* line 136: except BaseException catches every failure, cancellation included
CaughtExceptionOnly(e) == e /= "cancelled"
Caught(e) == TRUE

\* lines 118-122: amap_in_executor hands up to max_prefetch messages to an
\* executor, where they complete in any order, and yields the results in the
\* order the messages were read; the positions of the queue that can be
\* yielded next
AnyCompleted(q) == DOMAIN q
Yielded(q) == IF q /= <<>> THEN {1} ELSE {}

RemoveAt(q, i) == SubSeq(q, 1, i - 1) \o SubSeq(q, i + 1, Len(q))

\* register_failed_reducer (line 142): our local part stands in for every part
\* of the reducer that is not registered yet
Fallbacks(done, expected) ==
  [k \in 1..(IF expected > Len(done) THEN expected - Len(done) ELSE 0) |->
     [index |-> Len(done) + k - 1, msg |-> 0]]

InitExchange ==
  /\ tensors_lock = "free" /\ rdPc = "idle" /\ callerPc = "idle"
  /\ cwPc = [p \in Reducers |-> "idle"]
  /\ num_parts_by_peer \in [Reducers -> 1..MaxParts]
  /\ part_index = [p \in Reducers |-> 0]
  /\ received = [p \in Reducers |-> 0]
  /\ producing = [p \in Reducers |-> FALSE]
  /\ prefetch = [p \in Reducers |-> <<>>]
  /\ processed = [p \in Reducers |-> <<>>]
  /\ failed_reducers = [p \in Reducers |-> 0]
  /\ cwExc = [p \in Reducers |-> "none"]

IdleExchange ==
  /\ tensors_lock = "free" /\ rdPc = "idle" /\ callerPc = "idle"
  /\ cwPc = [p \in Reducers |-> "idle"]
  /\ num_parts_by_peer = [p \in Reducers |-> 1]
  /\ part_index = [p \in Reducers |-> 0]
  /\ received = [p \in Reducers |-> 0]
  /\ producing = [p \in Reducers |-> FALSE]
  /\ prefetch = [p \in Reducers |-> <<>>]
  /\ processed = [p \in Reducers |-> <<>>]
  /\ failed_reducers = [p \in Reducers |-> 0]
  /\ cwExc = [p \in Reducers |-> "none"]

\* lines 411-423: _aggregate_with_group enters get_tensors() and creates the
\* runner; the exchanges run inside the with block
RoundEnter ==
  /\ rdPc = "idle" /\ tensors_lock = "free"
  /\ tensors_lock' = "round" /\ rdPc' = "running"
  /\ UNCHANGED <<callerPc, cwPc, num_parts_by_peer, part_index, received,
                 producing, prefetch, processed, failed_reducers, cwExc>>
  /\ UNCHANGED othersOfExchange

\* lines 429-444: the runner is exhausted or has raised; leaving the with block
\* releases the lock
RoundExit ==
  /\ rdPc = "running"
  /\ \A p \in Reducers : cwPc[p] \in {"returned", "raised"}
  /\ tensors_lock' = "free" /\ rdPc' = "done"
  /\ UNCHANGED <<callerPc, cwPc, num_parts_by_peer, part_index, received,
                 producing, prefetch, processed, failed_reducers, cwExc>>
  /\ UNCHANGED othersOfExchange

\* lines 615 and 640: load_accumulators_into_averager_ or use_averaged_gradients
\* reaches `with self.get_tensors()`
CallerWants ==
  /\ callerPc = "idle"
  /\ callerPc' = "waiting"
  /\ UNCHANGED <<tensors_lock, rdPc, cwPc, num_parts_by_peer, part_index,
                 received, producing, prefetch, processed, failed_reducers, cwExc>>
  /\ UNCHANGED othersOfExchange

CallerAcquires ==
  /\ callerPc = "waiting" /\ tensors_lock = "free"
  /\ callerPc' = "holding" /\ tensors_lock' = "caller"
  /\ UNCHANGED <<rdPc, cwPc, num_parts_by_peer, part_index, received, producing,
                 prefetch, processed, failed_reducers, cwExc>>
  /\ UNCHANGED othersOfExchange

\* lines 616-619, 641-650: the body of the with block, then the release
CallerReleases ==
  /\ callerPc = "holding"
  /\ callerPc' = "done" /\ tensors_lock' = "free"
  /\ UNCHANGED <<rdPc, cwPc, num_parts_by_peer, part_index, received, producing,
                 prefetch, processed, failed_reducers, cwExc>>
  /\ UNCHANGED othersOfExchange

\* lines 96-101: the exchange with reducer p starts
ExchangeBegin(p) ==
  /\ rdPc = "running" /\ cwPc[p] = "idle"
  /\ cwPc' = [cwPc EXCEPT ![p] = "open"]
  /\ UNCHANGED <<tensors_lock, rdPc, callerPc, num_parts_by_peer, part_index,
                 received, producing, prefetch, processed, failed_reducers, cwExc>>
  /\ UNCHANGED othersOfExchange

\* lines 102-109: the stream to p is opened, or opening it fails
ExchangeOpen(p) ==
  /\ cwPc[p] = "open"
  /\ \/ /\ cwPc' = [cwPc EXCEPT ![p] = "recv"]
        /\ producing' = [producing EXCEPT ![p] = TRUE]
        /\ part_index' = [part_index EXCEPT ![p] = 0]
        /\ UNCHANGED cwExc
     \/ /\ cwPc' = [cwPc EXCEPT ![p] = "except"]
        /\ cwExc' = [cwExc EXCEPT ![p] = "transport"]
        /\ UNCHANGED <<producing, part_index>>
  /\ UNCHANGED <<tensors_lock, rdPc, callerPc, num_parts_by_peer, received,
                 prefetch, processed, failed_reducers>>
  /\ UNCHANGED othersOfExchange

\* the task of the exchange is cancelled while it awaits the network
ExchangeCancelled(p) ==
  /\ cwPc[p] \in {"open", "recv"}
  /\ cwPc' = [cwPc EXCEPT ![p] = "except"]
  /\ cwExc' = [cwExc EXCEPT ![p] = "cancelled"]
  /\ producing' = [producing EXCEPT ![p] = FALSE]
  /\ prefetch' = [prefetch EXCEPT ![p] = <<>>]
  /\ UNCHANGED <<tensors_lock, rdPc, callerPc, num_parts_by_peer, part_index,
                 received, processed, failed_reducers>>
  /\ UNCHANGED othersOfExchange

\* lines 118-121: the next item of p's stream is read and queued while the
\* queue has room: a message (an averaged part, or a message with another code)
\* handed to the executor, or the end of the stream, a timeout or a transport
\* error. Nothing read after a message with another code is ever yielded.
StreamRead(p) ==
  /\ cwPc[p] = "recv" /\ producing[p]
  /\ Len(prefetch[p]) < MaxParts
  /\ \E kind \in {"part", "bad_code", "end", "timeout", "transport"} :
       LET isMsg == kind \in {"part", "bad_code"}
       IN /\ isMsg => received[p] <= MaxParts
          /\ prefetch' = [prefetch EXCEPT ![p] =
                            Append(@, [no |-> IF isMsg THEN received[p] + 1 ELSE 0,
                                       kind |-> kind])]
          /\ received' = [received EXCEPT ![p] = IF isMsg THEN @ + 1 ELSE @]
          /\ producing' = [producing EXCEPT ![p] = (kind = "part")]
  /\ UNCHANGED <<tensors_lock, rdPc, callerPc, cwPc, num_parts_by_peer,
                 part_index, processed, failed_reducers, cwExc>>
  /\ UNCHANGED othersOfExchange

\* lines 111-135: the loop takes the next result: a part is registered under
\* part_index (123-126); a message with another code (112-115), a timeout or a
\* transport error raises; at the end of the stream the count is compared
\* (128-135)
ExchangeNext(p) ==
  /\ cwPc[p] = "recv"
  /\ \E i \in Yielded(prefetch[p]) :
       LET item == prefetch[p][i]
           failure ==
             IF item.kind = "part" THEN "none"
             ELSE IF item.kind = "end"
               THEN IF part_index[p] /= num_parts_by_peer[p]
                      THEN "count_mismatch" ELSE "none"
               ELSE item.kind
       IN IF item.kind = "part"
            THEN /\ processed' = [processed EXCEPT ![p] =
                       Append(@, [index |-> part_index[p], msg |-> item.no])]
                 /\ part_index' = [part_index EXCEPT ![p] = @ + 1]
                 /\ prefetch' = [prefetch EXCEPT ![p] = RemoveAt(@, i)]
                 /\ UNCHANGED <<cwPc, cwExc, producing>>
            ELSE /\ cwPc' = [cwPc EXCEPT ![p] =
                       IF failure = "none" THEN "returned" ELSE "except"]
                 /\ cwExc' = [cwExc EXCEPT ![p] = failure]
                 /\ prefetch' = [prefetch EXCEPT ![p] = <<>>]
                 /\ producing' = [producing EXCEPT ![p] = FALSE]
                 /\ UNCHANGED <<processed, part_index>>
  /\ UNCHANGED <<tensors_lock, rdPc, callerPc, num_parts_by_peer, received,
                 failed_reducers>>
  /\ UNCHANGED othersOfExchange

\* lines 136-143: the reducer is registered as failed and the exception is
\* raised again
ExchangeExcept(p) ==
  /\ cwPc[p] = "except"
  /\ IF Caught(cwExc[p])
       THEN /\ failed_reducers' = [failed_reducers EXCEPT ![p] = @ + 1]
            /\ processed' = [processed EXCEPT ![p] =
                               @ \o Fallbacks(@, num_parts_by_peer[p])]
       ELSE UNCHANGED <<failed_reducers, processed>>
  /\ cwPc' = [cwPc EXCEPT ![p] = "raised"]
  /\ UNCHANGED <<tensors_lock, rdPc, callerPc, num_parts_by_peer, part_index,
                 received, producing, prefetch, cwExc>>
  /\ UNCHANGED othersOfExchange

NextExchange ==
  \/ RoundEnter \/ RoundExit \/ CallerWants \/ CallerAcquires \/ CallerReleases
  \/ \E p \in Reducers :
       \/ ExchangeBegin(p) \/ ExchangeOpen(p) \/ ExchangeCancelled(p)
       \/ StreamRead(p) \/ ExchangeNext(p) \/ ExchangeExcept(p)

\* ======================================================= load balancing

\* the bandwidths a peer can declare (self.bandwidth)
Bandwidths == {0, 1, 2}

\* self.mode.value (line 262): AveragingMode is NODE = 0, CLIENT = 1, AUX = 2
ModeValue(m) == CASE m = "NODE" -> 0 [] m = "CLIENT" -> 1 [] m = "AUX" -> 2

\* AveragingMode(mode_id) (line 396)
AveragingMode(id) == <<"NODE", "CLIENT", "AUX">>[id + 1]

\* lines 399-402
DeclaredBandwidths(bandwidths, modes) == bandwidths
DownloadBandwidths(bandwidths, modes) ==
  [i \in DOMAIN bandwidths |-> IF modes[i] /= "CLIENT" THEN bandwidths[i] ELSE 0]

InitBalance ==
  /\ \E n \in 1..GroupSize :
       group_peers \in [1..n -> [bandwidth : Bandwidths, mode : Modes]]
  /\ gathered = <<>> /\ download_bandwidths = <<>> /\ lbPc = "matchmaking"

IdleBalance ==
  /\ group_peers = <<>> /\ gathered = <<>> /\ download_bandwidths = <<>>
  /\ lbPc = "matchmaking"

\* lines 261-263: every peer of the group contributes
\* [self.bandwidth, self.mode.value, user data] to group_info.gathered
Gather ==
  /\ lbPc = "matchmaking"
  /\ gathered' = [i \in DOMAIN group_peers |->
                    [bandwidth |-> group_peers[i].bandwidth,
                     mode_id |-> ModeValue(group_peers[i].mode)]]
  /\ lbPc' = "gathered"
  /\ UNCHANGED <<group_peers, download_bandwidths>>
  /\ UNCHANGED othersOfBalance

\* lines 388-409: the gathered data is unpacked and the download bandwidths
\* are handed to load_balance_peers
LoadBalance ==
  /\ lbPc = "gathered"
  /\ LET bandwidths == [i \in DOMAIN gathered |-> gathered[i].bandwidth]
         modes == [i \in DOMAIN gathered |-> AveragingMode(gathered[i].mode_id)]
     IN download_bandwidths' = DownloadBandwidths(bandwidths, modes)
  /\ lbPc' = "balanced"
  /\ UNCHANGED <<group_peers, gathered>>
  /\ UNCHANGED othersOfBalance

NextBalance == Gather \/ LoadBalance

\* ========================================================= specifications

IdleStep ==
  /\ pc = "off" /\ mm = "none" /\ found = "na" /\ mmExc = "none"
  /\ outcome = "pending" /\ excSet = "none" /\ exc = "none" /\ excSrc = "none"
  /\ stage = "IDLE" /\ trigger = "pending" /\ cancelFut = "pending"
  /\ userPc = "off" /\ now = 0 /\ deadline = Inf /\ allow_retries = TRUE
  /\ attempts = 0 /\ registered = FALSE /\ mode = "NODE"
  /\ tensors = ZeroTensors /\ nextTensor = 1
  /\ tensors0 = ZeroTensors /\ cancelInRound = FALSE /\ deliveredToAux = FALSE
  /\ hValid = FALSE /\ hDone = FALSE /\ hNow = 0 /\ hExc = "none"
  /\ chkCancelled = FALSE /\ invTrigger = "pending" /\ invCancelled = FALSE

InitSpecStep ==
  InitStep /\ IdleRecovery /\ IdleBan /\ IdleGrad /\ IdleDownload /\ IdleExchange
  /\ IdleBalance
SpecStep == InitSpecStep /\ [][NextStep]_vars

\* the event loop resumes the controller's coroutine whenever it can run
\* (lines 306-381); the all-reduce it awaits returns or raises
ControllerRuns ==
  \/ StepInit \/ LoopCheck \/ WaitReturn \/ AwaitMM \/ RegisterGroup
  \/ UnregisterGroup \/ AggInvoke \/ AggSetup \/ AggUpdate \/ AggAuxYield
  \/ AggFail \/ AggTimeout \/ AggReturn \/ Handler \/ OuterExcept \/ Finally
\* the matchmaking task (299-304): look_for_group returns or raises, and a
\* waiter whose trigger is resolved wakes up
MatchmakingRuns == MMReturn \/ MMRaise \/ MMWake
\* the controller under a fair scheduler while time advances; the caller's
\* trigger and cancel are not scheduled by the averager and stay unconstrained
SpecStepLive ==
  /\ InitSpecStep /\ [][NextStep]_vars
  /\ WF_vars(ControllerRuns) /\ WF_vars(MatchmakingRuns) /\ WF_vars(Tick)

InitSpecRecovery ==
  IdleStep /\ InitRecovery /\ IdleBan /\ IdleGrad /\ IdleDownload /\ IdleExchange
  /\ IdleBalance
SpecRecovery == InitSpecRecovery /\ [][NextRecovery]_vars

InitSpecBan ==
  IdleStep /\ IdleRecovery /\ InitBan /\ IdleGrad /\ IdleDownload /\ IdleExchange
  /\ IdleBalance
SpecBan == InitSpecBan /\ [][NextBan]_vars

InitSpecGrad ==
  IdleStep /\ IdleRecovery /\ IdleBan /\ InitGrad /\ IdleDownload /\ IdleExchange
  /\ IdleBalance
SpecGrad == InitSpecGrad /\ [][NextGrad]_vars

InitSpecGradConfig ==
  IdleStep /\ IdleRecovery /\ IdleBan /\ InitGradConfig /\ IdleDownload
  /\ IdleExchange /\ IdleBalance
SpecGradConfig == InitSpecGradConfig /\ [][NextGradRounds]_vars

InitSpecDownload ==
  IdleStep /\ IdleRecovery /\ IdleBan /\ IdleGrad /\ InitDownload /\ IdleExchange
  /\ IdleBalance
SpecDownload == InitSpecDownload /\ [][NextDownload]_vars

InitSpecExchange ==
  IdleStep /\ IdleRecovery /\ IdleBan /\ IdleGrad /\ IdleDownload /\ InitExchange
  /\ IdleBalance
SpecExchange == InitSpecExchange /\ [][NextExchange]_vars

InitSpecBalance ==
  IdleStep /\ IdleRecovery /\ IdleBan /\ IdleGrad /\ IdleDownload /\ IdleExchange
  /\ InitBalance
SpecBalance == InitSpecBalance /\ [][NextBalance]_vars

\* ============================================================== properties

\* C1: once the step is done (result, exception or cancellation), no later
\* set_result or set_exception changes its outcome, whatever the interleaving of
\* an external cancel with success or failure of the attempt.
C1_OutcomeSetOnce ==
  [][StepDone(outcome) => (outcome' = outcome /\ excSet' = excSet)]_vars

\* the all-reduce succeeded on a step the caller cancelled meanwhile: set_result
\* raised and the handler is about to run on a done step
C1_Witness == pc = "handler" /\ exc = "InvalidStateError" /\ outcome = "cancelled"

\* C2: every exit of _step_custom leaves the step resolved and its stage FINISHED.
C2_ExitResolved == pc = "exited" => (StepDone(outcome) /\ stage = "FINISHED")

C2_Witness == pc = "exited" /\ outcome = "cancelled" /\ cancelInRound

\* C3: after a cancel signal that arrives during the all-reduce, no further
\* averaged update of that round is applied to the local tensors.
C3_CancelStopsUpdates ==
  [][(cancelInRound /\ pc \in AllreducePcs) => tensors' = tensors]_vars

\* the retry condition as the handler saw it: step not done, retries allowed,
\* time before the deadline
HRetry == ~hDone /\ allow_retries /\ hNow < deadline

\* C4 as stated: when the retry condition does not hold, the failure becomes the
\* step's terminal exception.
C4_FailureAlwaysTerminal ==
  (pc = "loop" /\ hValid /\ ~HRetry) => (outcome = "exception" /\ excSet = hExc)

\* C4 (amended): after a retryable failure another attempt starts iff the step is
\* not done, allow_retries holds and the time read by the handler is before the
\* deadline; otherwise no attempt starts, and the failure becomes the terminal
\* exception unless the step was already done, whose outcome is then kept. An
\* all-reduce is only started for a group that was found.
C4_RetryPolicy ==
  /\ [](pc = "loop" /\ hValid /\ ~HRetry
          => /\ StepDone(outcome)
             /\ ~hDone => (outcome = "exception" /\ excSet = hExc)
             /\ hDone => outcome /= "exception")
  /\ [][(pc = "loop" /\ hValid /\ pc' /= "loop")
          => (pc' = "wait"
                <=> (~StepDone(outcome) /\ allow_retries /\ hNow < deadline))]_vars
  /\ [](pc \in PostMatchPcs => found = "group")

\* a second attempt was started after "could not find a group"
C4_Witness == attempts = 2 /\ pc = "wait" /\ hExc = "AllreduceException"

\* C5 as stated: _aggregate_with_group is only invoked for a step whose trigger
\* has fired and which is not cancelled.
C5_InvokedFiredNotCancelled ==
  pc = "agg_setup" => (invTrigger = "fired" /\ ~invCancelled)

\* C5 (amended): the all-reduce never starts while the trigger is pending: from
\* the registration of the group on, step.triggered holds and the step was not
\* cancelled when line 319 read it; a matchmaking task that waits for the trigger
\* keeps the stage AWAITING_TRIGGER and leaves the wait only when the trigger
\* future is resolved or the step is cancelled.
C5_TriggerGate ==
  /\ [](pc \in PostMatchPcs => (trigger /= "pending" /\ ~chkCancelled))
  /\ [](mm = "awaiting" => stage = "AWAITING_TRIGGER")
  /\ [][(mm = "awaiting" /\ mm' /= "awaiting")
          => (trigger /= "pending" \/ StepCancelled(outcome))]_vars

C5_Witness == pc = "agg_setup" /\ invTrigger = "fired" /\ ~invCancelled

C7_EpochNeverDecreases ==
  [][sa_local_epoch' >= sa_local_epoch /\ tracker_epoch' >= tracker_epoch]_vars

\* C8: when _aggregate_with_group ends with an error, the local tensors equal
\* their values before the round started.
C8_FailedRoundRestores ==
  (pc \in {"handler", "outer_except"} /\ excSrc = "allreduce") => tensors = tensors0

\* C9: a _ban_sender call that bans a sender adds it to the ban list, tells the
\* reducer that the sender failed, and does not itself raise an error.
C9_BanDoesNotRaise ==
  \A c \in Callers :
    banPc[c] = "done"
      => (c[1] \in banned_senders /\ failed_calls[c[1]] >= 1 /\ ~banRaised[c])

StepAccepted == stepLog' /= stepLog

\* C11 (as claimed): after accumulating g1, g2, g3 with batch sizes 8, 8, 16 the
\* accumulator holds g1 + g2 + 2*g3 and, once the step has loaded it, the
\* averaging buffer equals (g1 + g2 + 2*g3) / 4.
C11_RoundTripQuarter ==
  [][(accLog = <<8, 8, 16>> /\ StepAccepted) =>
       /\ anchor_batch_size = 8
       /\ \A i \in 1..3 : local_accumulators[i] = 8 * <<1, 1, 2>>[i]
       /\ Len(averaged_grads'.num) = 3
       /\ \A i \in 1..3 :
            averaged_grads'.num[i] * 4 = <<1, 1, 2>>[i] * averaged_grads'.den]_vars

\* C11 (amended): the same accumulation adds the gradients with weights 1, 1, 2,
\* and the loaded buffer is the accumulator divided by the number of
\* accumulate calls: (g1 + g2 + 2*g3) / 3. In general the buffer holds
\* sum(batch_i / anchor * g_i) / times_accumulated.
C11_RoundTripByTimes ==
  /\ [][(accLog = <<8, 8, 16>> /\ StepAccepted) =>
          /\ anchor_batch_size = 8
          /\ \A i \in 1..3 : local_accumulators[i] = 8 * <<1, 1, 2>>[i]
          /\ Len(averaged_grads'.num) = 3
          /\ \A i \in 1..3 :
               averaged_grads'.num[i] * 3
                 = <<1, 1, 2>>[i] * averaged_grads'.den]_vars
  /\ [][(accLog /= <<>> /\ StepAccepted) =>
          /\ Len(averaged_grads'.num) = Len(accLog)
          /\ \A i \in 1..Len(accLog) :
               averaged_grads'.num[i] * accLog[1] * Len(accLog)
                 = accLog[i] * averaged_grads'.den]_vars

\* the step loaded the accumulation 8, 8, 16 and the buffer still holds it
C11_Witness ==
  /\ accLog = <<8, 8, 16>> /\ accumulators_used_in_step /\ bufFresh
  /\ averaged_grads.num = <<8, 8, 16>> /\ averaged_grads.den = 24

\* C12: with reset_accumulators=True the accumulators and counters are zeroed
\* only after the averaging round has succeeded: whenever a step zeroes
\* accumulated samples, the round of its control has produced a result.
C12_ResetOnlyAfterSuccess ==
  [][(StepAccepted /\ local_samples_accumulated > 0
        /\ local_samples_accumulated' = 0) =>
       \E c \in ControlIds :
          stepLog'[c] /= stepLog[c] /\ controls'[c].outcome = "result"]_vars

\* C13: the weight of the control used by a step is the number of samples
\* accumulated when step was called (read before the reset), or the explicit
\* weight argument unchanged; it does not change once the trigger has fired.
C13_WeightIsSamplesAtCall ==
  /\ [][\A c \in ControlIds :
          stepLog'[c] /= stepLog[c] =>
            controls'[c].weight = IF lastStep'.w = <<>>
                                    THEN local_samples_accumulated
                                    ELSE lastStep'.w[1]]_vars
  /\ [][\A c \in ControlIds :
          Triggered(controls[c].trigger) =>
            controls'[c].weight = controls[c].weight]_vars

\* a step without explicit weight took 32 accumulated samples as its weight and
\* reset the accumulators
C13_Witness ==
  /\ lastStep.c /= 0 /\ ~lastStep.rejected /\ lastStep.w = <<>> /\ lastStep.reset
  /\ controls[lastStep.c].weight = 32
  /\ local_samples_accumulated = 0 /\ accLog = <<>>

\* C20: a control is used by at most one step: a step called with a triggered
\* control is rejected, and the rejected call changes neither the averaging
\* buffer, nor the accumulators and counters, nor the control's weight.
C20_ControlUsedOnce ==
  /\ [](\A c \in ControlIds : stepLog[c] <= 1)
  /\ [][\A c \in ControlIds :
          Triggered(controls[c].trigger) => stepLog'[c] = stepLog[c]]_vars
  /\ [][(lastStep'.rejected /\ lastStep' /= lastStep) =>
          /\ Triggered(controls[lastStep'.c].trigger)
          /\ UNCHANGED <<gradVars, accLog, bufFresh, stepLog>>]_vars

\* a step was rejected for a control an earlier step had used, with samples
\* accumulated and a loaded buffer in place
C20_Witness ==
  /\ lastStep.rejected /\ stepLog[lastStep.c] = 1
  /\ local_samples_accumulated > 0 /\ bufFresh
  /\ averaged_grads /= ZeroFrac

\* C16: after a successful recovery from a peer, the state averager's local
\* epoch and the progress tracker's local epoch both equal the epoch carried by
\* the downloaded state.
C16_EpochsFollowDownload ==
  [][(lastOp'.name = "load_state_from_peer" /\ lastOp'.ok /\ ~lastOp'.raised
        /\ ~lastOp'.hub) =>
       (sa_local_epoch' = lastOp'.d /\ tracker_epoch' = lastOp'.d)]_vars

\* C17 (as claimed): when no peer yields a valid state, load_state_from_peer and
\* load_final_state_from_peers report failure without an exception escaping and
\* leave parameters, optimizer state and local epoch unchanged.
C17_FailureIsAValue ==
  [][(lastOp'.name \in {"load_state_from_peer", "load_final"} /\ ~lastOp'.hub
        /\ ~lastOp'.ok) =>
       (~lastOp'.raised /\ UNCHANGED <<sa_local_epoch, params, opt_state>>)]_vars

\* C17 (amended): a failed recovery from peers leaves parameters, optimizer
\* state, model and all local epochs unchanged; no exception escapes
\* load_state_from_peer, while load_final_state_from_peers may raise instead of
\* returning False (an error while loading the optimizer state).
C17_FailureLeavesState ==
  /\ [][(lastOp'.name = "load_state_from_peer" /\ ~lastOp'.hub /\ ~lastOp'.ok) =>
          (~lastOp'.raised
           /\ UNCHANGED <<sa_local_epoch, params, opt_state, model_src,
                          tracker_epoch, neuron_local_epoch,
                          local_progress_epoch, hub_tags>>)]_vars
  /\ [][(lastOp'.name = "load_final" /\ ~lastOp'.ok) =>
          UNCHANGED <<sa_local_epoch, params, opt_state, model_src,
                      tracker_epoch>>]_vars

\* load_state_from_peer downloaded a state older than the local epoch and
\* refused it
C17_Witness ==
  /\ lastOp.name = "load_state_from_peer" /\ ~lastOp.hub /\ ~lastOp.ok
  /\ ~lastOp.raised /\ lastOp.d >= 0 /\ lastOp.d < sa_local_epoch
  /\ params = <<"local", sa_local_epoch>>

\* C18: if the registry holds a tag for an epoch >= the target epoch, the state
\* is fetched from the registry and no peer-to-peer download is attempted (so a
\* peer-to-peer download happens only when no such tag exists).
C18_RegistryPreferred ==
  [][lastOp'.name = "load_state_from_peer" =>
       LET tagged == \E i \in 1..Len(hub_tags) : hub_tags[i] >= lastOp'.target
       IN tagged => (lastOp'.hub /\ lastOp'.ok /\ model_src'[1] = "hub")]_vars

\* C19: a recovery that succeeds and leaves the local epoch greater than the
\* newest tag of the registry (or finds no tag at all) pushes the model and
\* creates a tag named by the local epoch.
C19_TagsNewEpoch ==
  [][(lastOp'.name = "load_state_from_peer" /\ lastOp'.ok
        /\ (Len(hub_tags) = 0 \/ LastTag(hub_tags) < local_progress_epoch')) =>
       hub_tags' = Append(hub_tags, local_progress_epoch')]_vars

\* C14: the download candidates are exactly the remote peers whose published
\* epoch is the maximum epoch published in the directory, and they are tried in
\* descending order of priority: every contacted peer is remote and at the
\* maximum epoch, priorities never increase along the contacted peers, and a
\* download that ends without a state has tried every remote peer at the
\* maximum epoch.
C14_CandidatesAtMaxEpoch ==
  LET AtMax(p) == /\ dlDir[p] /= <<>>
                  /\ \A q \in Peers : dlDir[q] /= <<>> => dlDir[q][1] <= dlDir[p][1]
      Contacted == {dlLog[i].peer : i \in 1..Len(dlLog)}
  IN /\ \A p \in Contacted : p /= Self /\ AtMax(p)
     /\ \A i, j \in 1..Len(dlLog) :
          i < j => dlPrio[dlLog[i].peer] >= dlPrio[dlLog[j].peer]
     /\ (dlPc = "done" /\ dlFuture.state = "none") =>
          \A p \in Remote : AtMax(p) => p \in Contacted

\* C15: the first candidate that yields metadata and the expected number of
\* tensors wins: the returned pair comes from the last contacted peer, whose
\* stream was complete; every peer contacted before it was incomplete; and a
\* download that ends without a state has tried every candidate.
C15_FirstCompleteWins ==
  LET Contacted == {dlLog[i].peer : i \in 1..Len(dlLog)}
  IN /\ \A i \in 1..Len(dlLog) : i < Len(dlLog) => dlLog[i].out /= "full"
     /\ dlFuture.state = "pair" =>
          /\ dlLog[Len(dlLog)].out = "full"
          /\ dlFuture.meta = dlLog[Len(dlLog)].peer
          /\ dlFuture.tensors = dlLog[Len(dlLog)].peer
          /\ dlFuture.n = NumParams
     /\ (dlPc = "done" /\ dlFuture.state = "none") =>
          \A p \in Remote :
             (dlDir[p] = <<dlEpoch>> /\ dlPrio[p] > 0) => p \in Contacted

\* C21: a step with a finite deadline always ends: the controller resolves the
\* step and exits, whatever the attempts do (as stated: without any assumption
\* on the trigger)
C21_AlwaysExits == (deadline /= Inf) ~> (pc = "exited" /\ StepDone(outcome))
\* C21 as the code has it: once the step's trigger is fired or cancelled, a step
\* with a finite deadline is resolved and the controller exits
C21_ExitsOnceTriggered ==
  (deadline /= Inf /\ trigger /= "pending") ~> (pc = "exited" /\ StepDone(outcome))
\* every attempt failed under allow_retries, the deadline passed, and the
\* controller exited with the step resolved
C21_Witness ==
  /\ pc = "exited" /\ StepDone(outcome) /\ allow_retries /\ deadline /= Inf
  /\ trigger = "fired" /\ attempts = MaxAttempts /\ hNow >= deadline
  /\ outcome = "exception" /\ excSet = "AllreduceException"

\* C30: the (metadata, tensors) pair a state download returns comes from one
\* peer's stream: the metadata was sent by the peer whose tensors are returned,
\* and that peer's own stream carried metadata
C30_PairFromOnePeer ==
  dlFuture.state = "pair" =>
    /\ dlFuture.meta = dlFuture.tensors
    /\ SentMetadata(dlLog[Len(dlLog)].out)

\* C25: banning one peer changes only that peer's standing: a _ban_sender(p)
\* call adds no peer but p to the ban list, removes none, reports no sender
\* index but the position of p in sender_peer_ids to the reducer, and leaves
\* the parts accumulated from every sender as they were.
C25_BanTouchesOnlyThatPeer ==
  [][\A c \in Callers :
       (banPc[c] = "locked" /\ banPc'[c] = "done") =>
         /\ banned_senders \subseteq banned_senders'
         /\ banned_senders' \subseteq banned_senders \cup {c[1]}
         /\ \A i \in DOMAIN sender_peer_ids :
              IF sender_peer_ids[i] = c[1]
                THEN failed_calls'[i] \in {failed_calls[i], failed_calls[i] + 1}
                ELSE failed_calls'[i] = failed_calls[i]
         /\ accumulated_from' = accumulated_from]_vars
\* a sender was banned while parts of another sender were accumulated; the
\* other sender is neither banned nor reported
C25_Witness ==
  \E c \in Callers : \E i, j \in DOMAIN sender_peer_ids :
    /\ sender_peer_ids[i] = c[1] /\ j /= i
    /\ banPc[c] = "done" /\ banRaised[c]
    /\ c[1] \in banned_senders /\ failed_calls[i] = 1
    /\ sender_peer_ids[j] \notin banned_senders /\ failed_calls[j] = 0
    /\ accumulated_from[j] > 0

\* C22: in an exchange with a remote reducer every failure (transport error,
\* per-message timeout, reply with another code, part count mismatch,
\* cancellation) registers that reducer as failed exactly once and is raised
\* again: an exchange that returned met no failure, and an exchange that met a
\* failure is in its except clause or has raised with the reducer registered
\* once.
C22_FailureMarksOnceAndRaises ==
  \A p \in Reducers :
    /\ cwExc[p] /= "none" => (cwExc[p] \in ExchangeFailures /\ cwPc[p] \in {"except", "raised"})
    /\ cwPc[p] = "raised" => (cwExc[p] /= "none" /\ failed_reducers[p] = 1)
    /\ cwPc[p] /= "raised" => failed_reducers[p] = 0
\* one exchange was cancelled and the other ended on a part count mismatch; both
\* raised with their reducer registered as failed once
C22_Witness ==
  /\ cwPc["A"] = "raised" /\ cwExc["A"] = "cancelled" /\ failed_reducers["A"] = 1
  /\ cwPc["B"] = "raised" /\ cwExc["B"] = "count_mismatch" /\ failed_reducers["B"] = 1

\* C23: a remote reducer's averaged parts count (are registered as processed)
\* only once all promised parts arrived and the count matched: when a reducer
\* delivered fewer or more parts than expected, none of the parts it sent is
\* registered.
C23_NoneRegisteredOnMismatch ==
  \A p \in Reducers :
    cwExc[p] = "count_mismatch" =>
      \A i \in DOMAIN processed[p] : processed[p][i].msg = 0

\* C24: the lock of the averaging buffer is not held while the round exchanges
\* parts with its peers: a caller waiting for get_tensors() is never kept out by
\* the round while an exchange is on the network.
C24_LockFreeDuringExchange ==
  ~ /\ tensors_lock = "round" /\ callerPc = "waiting"
    /\ \E p \in Reducers : cwPc[p] \in {"open", "recv"}

\* C26: the parts received from a remote reducer are registered in the order
\* sent: the k-th message of its stream is registered under part index k-1, and
\* the indices of the registered parts are 0, 1, 2, ... without gap or repeat,
\* however the exchanges with the other reducers interleave.
C26_RegisteredInOrderSent ==
  \A p \in Reducers : \A i \in DOMAIN processed[p] :
    /\ processed[p][i].index = i - 1
    /\ processed[p][i].msg /= 0 => processed[p][i].msg = i
\* two parts of A are registered with a part of B registered while B's exchange
\* is still receiving and has a message queued
C26_Witness ==
  /\ Len(processed["A"]) = 2 /\ processed["A"][2].msg = 2
  /\ cwPc["B"] = "recv" /\ Len(processed["B"]) = 1 /\ processed["B"][1].msg = 1
  /\ prefetch["B"] /= <<>>

\* C29: in every group the download bandwidth handed to the load balancer is 0
\* for a client-only peer, whatever bandwidth it declared, and is the declared
\* bandwidth for every other peer, in group order.
C29_ClientBandwidthZero ==
  lbPc = "balanced" =>
    /\ DOMAIN download_bandwidths = DOMAIN group_peers
    /\ \A i \in DOMAIN group_peers :
         download_bandwidths[i] =
           IF group_peers[i].mode = "CLIENT" THEN 0 ELSE group_peers[i].bandwidth
\* a group with a client-only peer that declared a bandwidth, next to a peer
\* of another mode with a different bandwidth
C29_Witness ==
  /\ lbPc = "balanced" /\ Len(group_peers) = 2
  /\ group_peers[1].mode = "CLIENT" /\ group_peers[1].bandwidth = 2
  /\ group_peers[2].mode = "AUX" /\ group_peers[2].bandwidth = 1
  /\ download_bandwidths = <<0, 1>>

\* an accumulate_grads_ call with batch size b took this step
Accumulated(b) == accLog' = Append(accLog, b)

\* C27 as stated: every accumulate call adds the gradients scaled by
\* batch_size / anchor to the accumulators.
C27_EveryCallAddsScaled ==
  [][\A b \in BatchSizes :
       Accumulated(b) => local_accumulators' = Append(local_accumulators, b)]_vars

\* C27 (amended): the anchor batch size is the batch size of the first
\* accumulate call since construction or the last reset (None before it), so
\* later calls do not change it; every call adds batch_size to
\* local_samples_accumulated and 1 to local_times_accumulated; and without
\* reuse_grad_buffers it adds the gradients scaled by batch_size / anchor to the
\* accumulators, while with reuse_grad_buffers it adds nothing to them.
C27_AnchorAndScaling ==
  /\ [](anchor_batch_size = IF accLog = <<>> THEN 0 ELSE accLog[1])
  /\ [][\A b \in BatchSizes :
          Accumulated(b) =>
            /\ anchor_batch_size' = IF accLog = <<>> THEN b ELSE anchor_batch_size
            /\ local_samples_accumulated' = local_samples_accumulated + b
            /\ local_times_accumulated' = local_times_accumulated + 1
            /\ local_accumulators' =
                 IF reuse_grad_buffers THEN local_accumulators
                                       ELSE Append(local_accumulators, b)]_vars
\* three calls with batch sizes 8, 16, 16 since the last reset, which followed
\* an earlier round: the anchor is still 8 and the third gradient weighs 16/8
C27_Witness ==
  /\ accLog = <<8, 16, 16>> /\ anchor_batch_size = 8
  /\ local_accumulators = <<8, 16, 16>> /\ local_samples_accumulated = 40
  /\ local_times_accumulated = 3 /\ ~reuse_grad_buffers
  /\ \E c \in ControlIds : stepLog[c] > 0

\* C28: with warnings enabled, step warns that the previous round's results
\* were not used exactly when a step was started before and neither
\* use_averaged_gradients nor notify_used_averaged_gradients was called since
\* (and never with warnings disabled, nor when the call is refused); the
\* warning does not stop the call: the round is started.
C28_WarnsIffUnused ==
  [][(lastStep' /= lastStep /\ lastStep'.c /= 0) =>
       /\ lastStep'.warned <=> (~lastStep'.rejected /\ warn /\ roundUnused)
       /\ lastStep'.warned =>
            /\ controls'[lastStep'.c].trigger = "fired"
            /\ stepLog'[lastStep'.c] = stepLog[lastStep'.c] + 1
            /\ new_averaged_grads' /\ roundUnused']_vars
\* a step warned, and its round was started
C28_Witness ==
  /\ lastStep.warned /\ warn /\ lastStep.c /= 0
  /\ controls[lastStep.c].trigger = "fired" /\ stepLog[lastStep.c] = 1

\* C31 as stated: in every attempt that formed a group, the group is in the
\* running-groups table from before _aggregate_with_group starts until after it
\* has returned or raised.
C31_RegisteredWhileAggregating ==
  pc \in {"agg_setup", "agg_iter"} => registered

\* C32: under every interleaving of concurrent _ban_sender calls of one round,
\* a sender is added to the ban list at most once and on_sender_failed is called
\* at most once per sender (exactly once for a banned sender, never for
\* another); a ban of an already banned sender changes neither the ban list nor
\* the reducer; and the ban list never shrinks.
C32_BannedAtMostOnce ==
  /\ [](\A i \in DOMAIN sender_peer_ids :
          failed_calls[i] = IF sender_peer_ids[i] \in banned_senders THEN 1 ELSE 0)
  /\ [][/\ banned_senders \subseteq banned_senders'
        /\ \A c \in Callers :
             (banPc[c] = "locked" /\ banPc'[c] = "done" /\ c[1] \in banned_senders)
               => /\ banned_senders' = banned_senders
                  /\ failed_calls' = failed_calls
                  /\ accumulated_from' = accumulated_from]_vars
\* two callers banned the same sender concurrently (both had called before
\* either finished): the sender is banned and was reported once, the second
\* call changed nothing
C32_Witness ==
  \E p \in Senders :
    /\ banPc[<<p, "rpc">>] = "done" /\ banPc[<<p, "timeout">>] = "done"
    /\ banRaised[<<p, "rpc">>] /= banRaised[<<p, "timeout">>]
    /\ p \in banned_senders
    /\ \A i \in DOMAIN sender_peer_ids : sender_peer_ids[i] = p => failed_calls[i] = 1

\* C33 as stated: after load_state_from_peer succeeds, the neuron's local_epoch,
\* its local_progress.epoch and the tracker's local_progress.epoch all equal the
\* target global epoch.
C33_EpochRecordsAgree ==
  [][(lastOp'.name = "load_state_from_peer" /\ lastOp'.ok /\ ~lastOp'.raised) =>
       /\ tracker_epoch' = global_epoch'
       /\ local_progress_epoch' = global_epoch'
       /\ neuron_local_epoch' = global_epoch']_vars

\* C34: the future of a state download is resolved exactly once on every path:
\* it is pending, and set_result was not called, while the coroutine runs; when
\* the coroutine is over set_result was called exactly once; the value is None
\* exactly when the progress metadata is missing, no eligible peer exists, every
\* candidate failed or an exception escaped, and is otherwise the pair of the
\* metadata held and the tensors of the stream that ended last.
C34_ResolvedExactlyOnce ==
  /\ dlPc /= "done" => (dlSets = 0 /\ dlFuture = PendingResult)
  /\ dlPc = "done" =>
       /\ dlSets = 1
       /\ dlFuture.state \in {"none", "pair"}
       /\ dlFuture.state = "none" <=>
            \/ ~dlHasDir
            \/ dlRaised
            \/ PeerPriority(dlDir, dlPrio, dlEpoch) = {}
            \/ dlIdx > Len(dlOrder)
       /\ dlFuture.state = "pair" =>
            /\ dlLog /= <<>> /\ dlMetadata /= <<>>
            /\ ~StreamFailed(dlLog[Len(dlLog)].out)
            /\ dlFuture.meta = dlMetadata[1]
            /\ dlFuture.tensors = dlLog[Len(dlLog)].peer
            /\ dlFuture.n = TensorCount(dlLog[Len(dlLog)].out)
\* an exception escaped during the lookup and the finally clause resolved the
\* future with None, once
C34_Witness ==
  /\ dlPc = "done" /\ dlRaised /\ dlHasDir
  /\ dlFuture = NoResult /\ dlSets = 1

\* C35 as stated: every remote peer whose published progress record is not
\* null, has the requested epoch and has a numeric priority entry is attempted
\* as a download source before the download reports failure.
C35_EligiblePeersAttempted ==
  (dlPc = "done" /\ dlHasDir /\ dlFuture.state = "none") =>
     \A p \in Remote :
        (dlDir[p] /= <<>> /\ dlDir[p][1] = dlEpoch /\ dlPrio[p] > 0) =>
           \E i \in 1..Len(dlLog) : dlLog[i].peer = p

====
